---- MODULE Spec2Model ----
(***************************************************************************)
(* Globe rendering / interaction controller (EarthComponent).              *)
(*                                                                         *)
(* The repository holds several iterations of the component, three of them  *)
(* in src/src/components/EarthComponent.tsx.  The model follows the one at  *)
(* lines 1140-2323 (width state, retry queue, recovery on context loss);    *)
(* definitions ending in _A model the iteration at lines 1-1139 (pending    *)
(* queue and replay) and those ending in _C the one at lines 2324-3346      *)
(* (isRecovering, recovery on context restore), each under its own          *)
(* specification.                                                          *)
(*                                                                         *)
(* Zoom factors are kept in hundredths (1.3 is 130) so that the rounding   *)
(* Math.round(x * 10) / 10 is an operator on integers.                     *)
(***************************************************************************)
EXTENDS Integers, Sequences, FiniteSets, TLC

(***************************************************************************)
(* Bounds of the model                                                     *)
(***************************************************************************)
\* number of asynchronous activities (initialisations, recoveries) one run starts
MaxTasks == 2
\* number of distinct regions of the largest generated record list
MaxRegions == 6

(***************************************************************************)
(* Numbers as the code sees them: typeof, isFinite, Number.isNaN           *)
(***************************************************************************)
Num(v) == [type |-> "number", kind |-> "finite", v |-> v]
NaN == [type |-> "number", kind |-> "NaN", v |-> 0]
Infinity == [type |-> "number", kind |-> "Infinity", v |-> 0]
Undefined == [type |-> "undefined", kind |-> "none", v |-> 0]

isFinite(x) == x.kind = "finite"
NumberIsNaN(x) == x.kind = "NaN"

Min(a, b) == IF a <= b THEN a ELSE b
Max(a, b) == IF a >= b THEN a ELSE b

\* Math.round(x * 10) / 10 on hundredths: nearest tenth, halves up
RoundTenth(v) == ((v + 5) \div 10) * 10

(***************************************************************************)
(* Data-center records                                                     *)
(***************************************************************************)
RegionNames == <<"Europe, DE", "Asia, JP", "North America, US", "Europe, CH",
                 "Asia, SG", "Europe, BE", "Asia, KR", "Europe, SE">>

DC(key, region, lat, lng, nodes) ==
  [key |-> key, region |-> region, latitude |-> lat, longitude |-> lng,
   total_nodes |-> nodes]

isMultiple(group) == Len(group) > 1

(***************************************************************************)
(* State                                                                   *)
(***************************************************************************)
VARIABLES
  props,             \* breakpoint flags of the current render: isMobile, isTablet, isMedium
  closure,           \* the flags captured by the callbacks the mount effect started
  zoomState,         \* zoomState.current: current, min, max, step (hundredths)
  widthState,        \* widthState.current: current, min, max, multiplier (percent)
  earthInstanceRef,  \* 0 for null, else the engine instance held
  engines,           \* per engine instance created so far: "live", "destroyed", or
                     \* with its GPU context "lost" / "lostNotified" (event dispatched)
  spritesCache,      \* the live marker set: sequence of sprites
  dataCentersData,   \* cached records of the data API
  contextLostCount,  \* recoveries started
  popupFunctionsRef, \* TRUE when showPopup / hidePopup are stored
  isInitialized,     \* the mount effect ran
  cleanupPending,    \* the mount effect's cleanup is registered and has not run
  scriptLoaded,      \* window.Earth is present
  apiResponse,       \* what the data API answers in this run
  tasks,             \* asynchronous activities: initialisations and recoveries
  isRecovering,      \* isRecovering.current (iteration at lines 2324-3346)
  webglLostRef,      \* webglLostRef.current (iteration at lines 1-1139)
  pendingSpritesRef, \* pendingSpritesRef.current (iteration at lines 1-1139)
  eventsWired,       \* canvas.__earthEventsWired (iteration at lines 1-1139)
  popups,            \* one record per setupPopupFunctionality call: its closure state
  popupNode,         \* the #earth-popup node: style.display, and what .popup-content holds
  hostCalls,         \* the latest call of onMobileDataCenterClick: its record, the flags then
  popupPlace,        \* mouseX, mouseY of the popup closure and the place positionPopup set
  interactionOff,    \* the engines whose autoRotate is false and whose orbit is disabled
  dom,               \* how many #earth-container, #earth-popup and <style> nodes the document holds
  loadPromise,       \* the module's loadPromise: 0 for null, else the script it waits for
  scripts            \* the <script> elements injected: "loading", "loaded" or "failed"

\* the state of loadEarthScript
loaderVars == <<loadPromise, scripts>>

vars == <<props, closure, zoomState, widthState, earthInstanceRef, engines,
          spritesCache, dataCentersData, contextLostCount, popupFunctionsRef,
          isInitialized, cleanupPending, scriptLoaded, apiResponse, loaderVars, tasks,
          isRecovering, webglLostRef, pendingSpritesRef, eventsWired,
          popups, popupNode, hostCalls, popupPlace, interactionOff, dom>>

\* refs that only the older and the newer iteration of the component have
legacyVars == <<isRecovering, webglLostRef, pendingSpritesRef, eventsWired>>

\* the popup node as initializeEarth creates it: not displayed, no content
\* rendered (renderedBy is the index in popups of the closure that rendered)
NoPopupNode == [display |-> "none", renderedBy |-> 0, group |-> <<>>, expanded |-> 0]

\* the popup and the host's callback
\* the pointer and the popup's place before any mousemove and any positionPopup
NoPlace ==
  [mouseX |-> 0, mouseY |-> 0, positioned |-> FALSE, left |-> 0, top |-> 0,
   earthBounds |-> [left |-> 0, top |-> 0, right |-> 0, bottom |-> 0]]

uiVars == <<popups, popupNode, hostCalls, popupPlace, interactionOff, dom>>

Flags == [isMobile : BOOLEAN, isTablet : BOOLEAN, isMedium : BOOLEAN]

isBigScreen(f) == ~f.isMobile /\ ~f.isTablet /\ ~f.isMedium

(***************************************************************************)
(* ViewportStateStore                                                      *)
(***************************************************************************)
maxRecoveryAttempts == 3
zoomStep == 10
widthMin == 65
widthMax == 90
widthMultiplier == 10

\* the breakpoint sync effect: bounds and initial level of a device class
deriveBounds(f) ==
  [current |-> IF f.isMedium THEN 100 ELSE 130,
   min     |-> IF f.isMedium THEN 100 ELSE 130,
   max     |-> IF f.isMobile THEN 160
               ELSE IF f.isTablet THEN 150
               ELSE IF f.isMedium THEN 140 ELSE 160,
   step    |-> zoomStep]

deriveWidth(f) == IF f.isMobile \/ f.isTablet \/ f.isMedium THEN 100 ELSE widthMin

\* the zoom level initializeEarth applies for the flags it captured
initialZoom(f) ==
  IF f.isMedium THEN 100
  ELSE IF f.isMobile THEN 130
  ELSE IF f.isTablet THEN 100
  ELSE 130

\* zoomIn without the clamp at max
zoomInLevel_unclamped(z) == RoundTenth(z.current + z.step)

zoomInLevel(z) == Min(RoundTenth(z.current + z.step), z.max)
zoomOutLevel(z) == Max(RoundTenth(z.current - z.step), z.min)
resetLevel(z) == z.min

zoomIn ==
  /\ earthInstanceRef /= 0
  /\ LET newZoom == zoomInLevel(zoomState) IN
     IF newZoom = zoomState.current
     THEN UNCHANGED <<zoomState, widthState>>
     ELSE /\ zoomState' = [zoomState EXCEPT !.current = newZoom]
          /\ widthState' =
               IF isBigScreen(props)
               THEN [widthState EXCEPT
                       !.current = Min(widthState.current + widthState.multiplier,
                                       widthState.max)]
               ELSE widthState
  /\ UNCHANGED <<props, closure, earthInstanceRef, engines, spritesCache,
                 dataCentersData, contextLostCount, popupFunctionsRef,
                 isInitialized, cleanupPending, scriptLoaded, apiResponse, loaderVars, tasks>>
  /\ UNCHANGED legacyVars
  /\ UNCHANGED uiVars

zoomOut ==
  /\ earthInstanceRef /= 0
  /\ LET newZoom == zoomOutLevel(zoomState) IN
     IF newZoom = zoomState.current
     THEN UNCHANGED <<zoomState, widthState>>
     ELSE /\ zoomState' = [zoomState EXCEPT !.current = newZoom]
          /\ widthState' =
               IF isBigScreen(props)
               THEN [widthState EXCEPT
                       !.current = Max(widthState.current - widthState.multiplier,
                                       widthState.min)]
               ELSE widthState
  /\ UNCHANGED <<props, closure, earthInstanceRef, engines, spritesCache,
                 dataCentersData, contextLostCount, popupFunctionsRef,
                 isInitialized, cleanupPending, scriptLoaded, apiResponse, loaderVars, tasks>>
  /\ UNCHANGED legacyVars
  /\ UNCHANGED uiVars

resetZoom ==
  /\ earthInstanceRef /= 0
  /\ zoomState' = [zoomState EXCEPT !.current = resetLevel(zoomState)]
  /\ widthState' = IF isBigScreen(props)
                   THEN [widthState EXCEPT !.current = widthMin]
                   ELSE widthState
  /\ UNCHANGED <<props, closure, earthInstanceRef, engines, spritesCache,
                 dataCentersData, contextLostCount, popupFunctionsRef,
                 isInitialized, cleanupPending, scriptLoaded, apiResponse, loaderVars, tasks>>
  /\ UNCHANGED legacyVars
  /\ UNCHANGED uiVars

(***************************************************************************)
(* MarkerRegistry: createSprites                                           *)
(***************************************************************************)
batchSize == 5
maxRetries == 3

\* outcomes of the engine's marker factory earth.addSprite
Outcomes == {"sprite", "falsy", "throws"}

\* keys without grouping: one per record
regionKeys_perRecord(centers) == [i \in 1..Len(centers) |-> centers[i].region]

RECURSIVE regionKeys(_)
\* Object.keys(regionMap): the regions in order of first appearance
regionKeys(centers) ==
  IF centers = <<>> THEN <<>>
  ELSE LET front == regionKeys(SubSeq(centers, 1, Len(centers) - 1))
           r == centers[Len(centers)].region
       IN IF \E i \in 1..Len(front) : front[i] = r THEN front ELSE Append(front, r)

regionMap(centers, region) == SelectSeq(centers, LAMBDA dc : dc.region = region)

\* the coordinate check reduced to typeof
hasValidLatLng_typeofOnly(lat, lng) == lat.type = "number" /\ lng.type = "number"

hasValidLatLng(lat, lng) ==
  /\ lat.type = "number" /\ isFinite(lat) /\ ~NumberIsNaN(lat)
  /\ lng.type = "number" /\ isFinite(lng) /\ ~NumberIsNaN(lng)

\* the checks of tryAddRegion before the factory is called
regionIsValid(centers, region) ==
  LET group == regionMap(centers, region) IN
  /\ Len(group) > 0
  /\ hasValidLatLng(group[1].latitude, group[1].longitude)

\* what the try / catch around the factory call makes of its outcome
factoryResult(outcome) ==
  CASE outcome = "sprite" -> "added"
    [] outcome = "falsy"  -> "failed"
    [] outcome = "throws" -> "failed"

\* tryAddRegion(region): "added" (true), "failed" (false), or "escaped" when an
\* exception leaves the helper
tryAddRegion(centers, region, outcome) ==
  IF ~regionIsValid(centers, region) THEN "failed" ELSE factoryResult(outcome)

\* the sprite the factory returns for a region of a populate call on engine earth
spriteOf(centers, region, earth) ==
  LET group == regionMap(centers, region) IN
  [region |-> region, earth |-> earth, first |-> group[1],
   image |-> IF isMultiple(group) THEN "real-multiple.svg" ELSE "real-single.svg"]

\* a retry rule that never gives an entry up
requeue_always(attempts) == attempts = attempts

\* a retry rule that keeps an entry one attempt longer
requeue_oneMore(attempts) == attempts <= maxRetries + 1

\* the rule of the retry loop: an entry goes back on the queue
requeue(attempts) == attempts <= maxRetries

\* a retry loop that stops one round early
retryLoopRuns_short(failedQueue, retryRound) ==
  Len(failedQueue) > 0 /\ retryRound < maxRetries

\* the guard of the retry loop
retryLoopRuns(failedQueue, retryRound) ==
  Len(failedQueue) > 0 /\ retryRound <= maxRetries

NoTask ==
  [kind |-> "init", pc |-> "done", earth |-> 0, centers |-> <<>>, regions |-> <<>>,
   idx |-> 0,
   failedQueue |-> <<>>, currentFailed |-> <<>>, retryRound |-> 1,
   tries |-> <<>>, abandoned |-> <<>>, markers |-> <<>>, calls |-> <<>>,
   allSucceeded |-> TRUE, started |-> FALSE, threw |-> FALSE,
   zoomTimer |-> FALSE, haltedOn |-> "", script |-> 0,
   failedAt |-> "", rejected |-> FALSE]

\* entry of createSprites(earth, centers)
startSprites(task, earth, centers) ==
  LET keys == regionKeys(centers)
      zero == [i \in 1..Len(keys) |-> 0]
  IN [task EXCEPT !.earth = earth, !.centers = centers, !.regions = keys, !.idx = 0,
                  !.failedQueue = <<>>, !.currentFailed = <<>>, !.retryRound = 1,
                  !.tries = zero, !.abandoned = zero, !.markers = zero,
                  !.calls = zero, !.allSucceeded = TRUE, !.started = TRUE,
                  !.threw = FALSE]

indexOf(keys, region) == CHOOSE i \in 1..Len(keys) : keys[i] = region

\* one pass of the loop body over one region: st is the call's state and the
\* marker set; retry tells the retry loop from the initial pass
attemptRegion(st, entry, outcome, retry) ==
  IF st.task.threw THEN st
  ELSE
    LET t == st.task
        k == indexOf(t.regions, entry.region)
        valid == regionIsValid(t.centers, entry.region)
        res == tryAddRegion(t.centers, entry.region, outcome)
        t1 == [t EXCEPT !.tries[k] = @ + 1,
                        !.calls[k] = @ + (IF valid THEN 1 ELSE 0),
                        !.allSucceeded = @ /\ (~valid \/ outcome = "sprite")]
        attempts == entry.attempts + 1
    IN CASE res = "added" ->
              [task |-> [t1 EXCEPT !.markers[k] = @ + 1],
               sprites |-> Append(st.sprites, spriteOf(t.centers, entry.region, t.earth))]
         [] res = "failed" ->
              IF ~retry \/ requeue(attempts)
              THEN [st EXCEPT !.task =
                      [t1 EXCEPT !.failedQueue =
                         Append(@, [region |-> entry.region, attempts |-> attempts])]]
              ELSE [st EXCEPT !.task = [t1 EXCEPT !.abandoned[k] = @ + 1]]
         [] OTHER ->
              [st EXCEPT !.task = [t1 EXCEPT !.threw = TRUE]]

RECURSIVE attemptAll(_, _, _, _)
\* the for loop over the entries of one batch or one retry round
attemptAll(st, entries, oc, retry) ==
  IF entries = <<>> THEN st
  ELSE attemptAll(attemptRegion(st, Head(entries), oc[Head(entries).region], retry),
                  Tail(entries), oc, retry)

\* the head of the retry loop: take the whole queue and wait, or finish
enterRetry(task) ==
  IF task.threw THEN [task EXCEPT !.pc = "done"]
  ELSE IF retryLoopRuns(task.failedQueue, task.retryRound)
  THEN [task EXCEPT !.currentFailed = task.failedQueue, !.failedQueue = <<>>,
                    !.pc = "retryWait"]
  ELSE [task EXCEPT !.pc = "done"]

\* the regions of the batch that starts at task.idx
batchOf(task) ==
  LET keys == task.regions
      end == Min(task.idx + batchSize, Len(keys))
  IN [i \in 1..(end - task.idx) |-> [region |-> keys[task.idx + i], attempts |-> 0]]

regionsIn(entries) == {entries[i].region : i \in 1..Len(entries)}

\* one batch of the initial pass, up to the next await
initialBatch(st, oc) ==
  LET entries == batchOf(st.task)
      after == attemptAll(st, entries, oc, FALSE)
      t == [after.task EXCEPT !.idx = @ + Len(entries)]
  IN [after EXCEPT !.task =
        IF t.threw THEN [t EXCEPT !.pc = "done"]
        ELSE IF t.idx < Len(t.regions) THEN [t EXCEPT !.pc = "batchWait"]
        ELSE enterRetry(t)]

\* one round of the retry loop, up to the next await
retryRoundOf(st, oc) ==
  LET entries == st.task.currentFailed
      after == attemptAll([st EXCEPT !.task.currentFailed = <<>>], entries, oc, TRUE)
  IN [after EXCEPT !.task = enterRetry([after.task EXCEPT !.retryRound = @ + 1])]

\* createSprites(earth, centers) from its entry to its first await
createSprites(task, sprites, earth, centers, popupFns, oc) ==
  IF Len(centers) = 0 \/ ~popupFns
  THEN [task |-> [task EXCEPT !.pc = "done"], sprites |-> sprites]
  ELSE initialBatch([task |-> startSprites(task, earth, centers), sprites |-> sprites], oc)

\* the factory outcomes one synchronous block may meet
outcomesFor(entries) == [regionsIn(entries) -> Outcomes]

(***************************************************************************)
(* Data API answers                                                        *)
(***************************************************************************)
\* the scenario of the specification: two records in one region, one in another
ScenarioRecords ==
  << DC("dc1", "Europe, DE", Num(50), Num(8), 3),
     DC("dc2", "Europe, DE", Num(52), Num(13), 2),
     DC("dc3", "Asia, JP", Num(35), Num(139), 4) >>

\* coordinates that are not finite numbers
BadCoordinates == {NaN, Infinity, Undefined}

\* n records in n regions, all valid
validRecords(n) ==
  [i \in 1..n |-> DC("dc", RegionNames[i], Num(10 * i - 40), Num(20 * i - 80), i)]

\* a record that is not finite, then a valid one in another region; a valid record
\* followed in its region by one that is not finite; and the reverse order
withBadCoordinates ==
  UNION {
    { << DC("dc1", "Europe, DE", c, Num(8), 3), DC("dc3", "Asia, JP", Num(35), Num(139), 4) >>,
      << DC("dc1", "Europe, DE", Num(50), c, 3), DC("dc3", "Asia, JP", Num(35), Num(139), 4) >>,
      << DC("dc1", "Europe, DE", Num(50), Num(8), 3), DC("dc2", "Europe, DE", c, Num(13), 2) >>,
      << DC("dc1", "Europe, DE", c, Num(8), 3), DC("dc2", "Europe, DE", Num(52), Num(13), 2) >> }
    : c \in BadCoordinates }

\* finite coordinates outside lat [-90, 90] or lng [-180, 180]
withOutOfRange ==
  { << DC("dc1", "Europe, DE", Num(100), Num(8), 3), DC("dc3", "Asia, JP", Num(35), Num(139), 4) >>,
    << DC("dc1", "Europe, DE", Num(50), Num(-200), 3) >>,
    << DC("dc1", "Europe, DE", Num(-91), Num(181), 3), DC("dc3", "Asia, JP", Num(35), Num(139), 4) >> }

\* a record without nodes is filtered out before createSprites
withEmptyDataCenter ==
  { << DC("dc1", "Europe, DE", Num(50), Num(8), 0), DC("dc3", "Asia, JP", Num(35), Num(139), 4) >>,
    << DC("dc1", "Europe, DE", Num(50), Num(8), 0) >> }

\* answers of the data API in the controller's runs: no data center with nodes,
\* so that createSprites returns at its guard (PopulateInputs exercise it)
ApiResponses ==
  { <<>>, << DC("dc1", "Europe, DE", Num(50), Num(8), 0) >> }

\* record lists createSprites is exercised with on its own
PopulateInputs ==
  {ScenarioRecords, validRecords(MaxRegions)} \cup withBadCoordinates
    \cup withOutOfRange \cup withEmptyDataCenter

withNodes(records) == SelectSeq(records, LAMBDA dc : dc.total_nodes > 0)

(***************************************************************************)
(* GlobeController: initializeEarth                                        *)
(***************************************************************************)
\* the closure of setupPopupFunctionality at its creation
\* the nodes of the controller in the document: none before the first
\* initializeEarth, one of each after it
NoDom == [container |-> 0, popup |-> 0, style |-> 0]
OneOfEach == [container |-> 1, popup |-> 1, style |-> 1]

\* document.getElementById(id) and the removal of the node it finds
removeById(n) == IF n > 0 THEN n - 1 ELSE 0

\* a popup node that is created on every call
createOrReusePopup_always(n) == n + 1

\* "Create or reuse popup": a node is created only when the document has none
createOrReusePopup(n) == IF n = 0 THEN 1 ELSE n

\* the nodes after the synchronous block of initializeEarth: the existing
\* #earth-container is removed, the popup is created or reused, the container of
\* the component is emptied and the new <style> and #earth-container are appended
initializeEarthNodes(d) ==
  LET removed == [d EXCEPT !.container = removeById(@)]
      emptied == [removed EXCEPT !.container = 0, !.style = 0]
  IN [container |-> emptied.container + 1, style |-> emptied.style + 1,
      popup |-> createOrReusePopup(d.popup)]

NoPopup ==
  [isVisible |-> FALSE, currentGroupData |-> <<>>, currentExpandedIndex |-> 0,
   hideTimer |-> 0, isHoveringPopup |-> FALSE]

\* an onerror that leaves the rejected promise cached
scriptOnerror_stuck(promise) == promise

\* what script.onerror leaves in loadPromise: null, to allow a retry
scriptOnerror(promise) == 0

\* one call of loadEarthScript: the script the returned promise waits for (0 for a
\* promise already resolved), and the loader's state after the call
loadEarthScript(earthPresent, promise, injected) ==
  IF earthPresent
  THEN [awaits |-> 0, loadPromise |-> promise, scripts |-> injected]
  ELSE IF promise = 0
  THEN [awaits |-> Len(injected) + 1, loadPromise |-> Len(injected) + 1,
        scripts |-> Append(injected, "loading")]
  ELSE [awaits |-> promise, loadPromise |-> promise, scripts |-> injected]

\* the loader of the iteration at lines 2324-3346: a new promise and a new script
\* element per call
loadEarthScript_C(earthPresent, promise, injected) ==
  IF earthPresent
  THEN [awaits |-> 0, loadPromise |-> promise, scripts |-> injected]
  ELSE [awaits |-> Len(injected) + 1, loadPromise |-> promise,
        scripts |-> Append(injected, "loading")]

firstBatch(centers) == batchOf(startSprites(NoTask, 0, centers))

Init ==
  /\ props \in Flags
  /\ closure = props
  /\ zoomState = deriveBounds(props)
  /\ widthState = [current |-> deriveWidth(props), min |-> widthMin, max |-> widthMax,
                   multiplier |-> widthMultiplier]
  /\ earthInstanceRef = 0
  /\ engines = <<>>
  /\ spritesCache = <<>>
  /\ dataCentersData = <<>>
  /\ contextLostCount = 0
  /\ popupFunctionsRef = FALSE
  /\ isInitialized = TRUE
  /\ cleanupPending = TRUE
  /\ scriptLoaded = FALSE
  /\ loadPromise = 1
  /\ scripts = << "loading" >>
  /\ apiResponse \in ApiResponses
  /\ tasks = << [NoTask EXCEPT !.pc = "load", !.script = 1] >>
  /\ isRecovering = FALSE
  /\ webglLostRef = FALSE
  /\ pendingSpritesRef = <<>>
  /\ eventsWired = FALSE
  /\ popups = <<>>
  /\ popupNode = NoPopupNode
  /\ hostCalls = {}
  /\ popupPlace = NoPlace
  /\ interactionOff = {}
  /\ dom = NoDom

\* an initializeEarth that asks the data API whatever it has cached
initBody_refetch(t, oc) ==
  LET e == Len(engines) + 1 IN
  /\ engines' = Append(engines, "live")
  /\ earthInstanceRef' = e
  /\ zoomState' = [zoomState EXCEPT !.current = initialZoom(closure)]
  /\ popupFunctionsRef' = TRUE
  /\ tasks' = [tasks EXCEPT ![t] = [@ EXCEPT !.kind = "init", !.pc = "fetch", !.earth = e]]
  /\ UNCHANGED spritesCache
  /\ popups' = Append(popups, NoPopup)
  /\ dom' = initializeEarthNodes(dom)

\* initializeEarth from the resolution of loadEarthScript to its next await
initBody(t, oc) ==
  LET e == Len(engines) + 1 IN
  /\ engines' = Append(engines, "live")
  /\ earthInstanceRef' = e
  /\ zoomState' = [zoomState EXCEPT !.current = initialZoom(closure)]
  /\ popupFunctionsRef' = TRUE
  /\ IF Len(dataCentersData) > 0
     THEN LET r == createSprites([tasks[t] EXCEPT !.kind = "init"], spritesCache, e,
                                 dataCentersData, TRUE, oc)
          IN /\ tasks' = [tasks EXCEPT ![t] = r.task]
             /\ spritesCache' = r.sprites
     ELSE /\ tasks' = [tasks EXCEPT ![t] = [@ EXCEPT !.kind = "init", !.pc = "fetch",
                                                     !.earth = e]]
          /\ UNCHANGED spritesCache
  /\ popups' = Append(popups, NoPopup)
  /\ dom' = initializeEarthNodes(dom)

\* an initializeEarth whose last catch lets the error of the fetch through
initializeEarthRejects_rethrow(step) == step = "fetch"

\* whether initializeEarth's promise rejects when a step fails: the catch that
\* closes its try block logs the error and returns
initializeEarthRejects(step) == FALSE

\* the run of initializeEarth that task is in fails at step
failAt(task, step) ==
  [task EXCEPT !.pc = "done", !.failedAt = step,
               !.rejected = initializeEarthRejects(step)]

\* the script's onload: the initialisation waiting for it goes on
ScriptLoaded(t) ==
  /\ tasks[t].pc = "load"
  /\ scripts' = [scripts EXCEPT ![tasks[t].script] = "loaded"]
  /\ UNCHANGED loadPromise
  /\ scriptLoaded' = TRUE
  /\ \E oc \in outcomesFor(firstBatch(dataCentersData)) : initBody(t, oc)
  /\ UNCHANGED <<props, closure, widthState, dataCentersData, contextLostCount,
                 isInitialized, cleanupPending, apiResponse>>
  /\ UNCHANGED legacyVars
  /\ UNCHANGED <<popupNode, hostCalls, popupPlace, interactionOff>>

\* the script's onerror: initializeEarth logs and ends
ScriptFailed(t) ==
  /\ tasks[t].pc = "load"
  /\ scripts' = [scripts EXCEPT ![tasks[t].script] = "failed"]
  /\ loadPromise' = scriptOnerror(loadPromise)
  /\ ~scriptLoaded
  /\ tasks' = [tasks EXCEPT ![t] = failAt(@, "load")]
  /\ UNCHANGED <<props, closure, zoomState, widthState, earthInstanceRef, engines,
                 spritesCache, dataCentersData, contextLostCount, popupFunctionsRef,
                 isInitialized, cleanupPending, scriptLoaded, apiResponse>>
  /\ UNCHANGED legacyVars
  /\ UNCHANGED uiVars

\* the data API answers: cache the records and start createSprites
FetchResolved(t) ==
  /\ tasks[t].pc = "fetch"
  /\ LET centers == withNodes(apiResponse) IN
     /\ dataCentersData' = centers
     /\ \E oc \in outcomesFor(firstBatch(centers)) :
          LET r == createSprites(tasks[t], spritesCache, tasks[t].earth, centers,
                                 popupFunctionsRef, oc)
          IN /\ tasks' = [tasks EXCEPT ![t] = r.task]
             /\ spritesCache' = r.sprites
  /\ UNCHANGED <<props, closure, zoomState, widthState, earthInstanceRef, engines,
                 contextLostCount, popupFunctionsRef, isInitialized, cleanupPending,
                 scriptLoaded, apiResponse, loaderVars>>
  /\ UNCHANGED legacyVars
  /\ UNCHANGED uiVars

\* the data API fails: initializeEarth logs and ends
FetchRejected(t) ==
  /\ tasks[t].pc = "fetch"
  /\ tasks' = [tasks EXCEPT ![t] = failAt(@, "fetch")]
  /\ UNCHANGED <<props, closure, zoomState, widthState, earthInstanceRef, engines,
                 spritesCache, dataCentersData, contextLostCount, popupFunctionsRef,
                 isInitialized, cleanupPending, scriptLoaded, apiResponse, loaderVars>>
  /\ UNCHANGED legacyVars
  /\ UNCHANGED uiVars

\* the inter-batch delay of createSprites elapses
BatchTimer(t) ==
  /\ tasks[t].pc = "batchWait"
  /\ \E oc \in outcomesFor(batchOf(tasks[t])) :
       LET r == initialBatch([task |-> tasks[t], sprites |-> spritesCache], oc)
       IN /\ tasks' = [tasks EXCEPT ![t] = r.task]
          /\ spritesCache' = r.sprites
  /\ UNCHANGED <<props, closure, zoomState, widthState, earthInstanceRef, engines,
                 dataCentersData, contextLostCount, popupFunctionsRef, isInitialized,
                 cleanupPending, scriptLoaded, apiResponse, loaderVars>>
  /\ UNCHANGED legacyVars
  /\ UNCHANGED uiVars

\* the backoff of one retry round elapses
RetryTimer(t) ==
  /\ tasks[t].pc = "retryWait"
  /\ \E oc \in outcomesFor(tasks[t].currentFailed) :
       LET r == retryRoundOf([task |-> tasks[t], sprites |-> spritesCache], oc)
       IN /\ tasks' = [tasks EXCEPT ![t] = r.task]
          /\ spritesCache' = r.sprites
  /\ UNCHANGED <<props, closure, zoomState, widthState, earthInstanceRef, engines,
                 dataCentersData, contextLostCount, popupFunctionsRef, isInitialized,
                 cleanupPending, scriptLoaded, apiResponse, loaderVars>>
  /\ UNCHANGED legacyVars
  /\ UNCHANGED uiVars

(***************************************************************************)
(* ContextRecoveryManager                                                  *)
(***************************************************************************)
destroyEngine(e) == IF e = 0 THEN engines ELSE [engines EXCEPT ![e] = "destroyed"]

\* the canvas of engine e signals webglcontextlost: recovery is scheduled
ContextLost(e) ==
  /\ e \in 1..Len(engines)
  /\ engines[e] = "live"
  /\ Len(tasks) < MaxTasks
  /\ tasks' = Append(tasks, [NoTask EXCEPT !.kind = "recover", !.pc = "recoverTimer"])
  /\ UNCHANGED <<props, closure, zoomState, widthState, earthInstanceRef, engines,
                 spritesCache, dataCentersData, contextLostCount, popupFunctionsRef,
                 isInitialized, cleanupPending, scriptLoaded, apiResponse, loaderVars>>
  /\ UNCHANGED legacyVars
  /\ popupNode' = [popupNode EXCEPT !.display = "none"]
  /\ UNCHANGED <<popups, hostCalls, popupPlace, interactionOff, dom>>

\* a cap tested one attempt too late
maxAttemptsReached_late(count) == count > maxRecoveryAttempts

\* the test recoverWebGLContext opens with, before it counts the attempt
maxAttemptsReached(count) == count >= maxRecoveryAttempts

\* recoverWebGLContext from its entry to its first await
RecoverTimer(t) ==
  /\ tasks[t].pc = "recoverTimer"
  /\ IF maxAttemptsReached(contextLostCount)
     THEN /\ tasks' = [tasks EXCEPT ![t].pc = "done"]
          /\ UNCHANGED <<contextLostCount, engines, earthInstanceRef, spritesCache>>
     ELSE /\ contextLostCount' = contextLostCount + 1
          /\ engines' = destroyEngine(earthInstanceRef)
          /\ earthInstanceRef' = 0
          /\ spritesCache' = <<>>
          /\ tasks' = [tasks EXCEPT ![t].pc = "recoverWait"]
  /\ UNCHANGED <<props, closure, zoomState, widthState, dataCentersData,
                 popupFunctionsRef, isInitialized, cleanupPending, scriptLoaded,
                 apiResponse, loaderVars>>
  /\ UNCHANGED legacyVars
  /\ UNCHANGED uiVars

\* the grace period of recovery elapses: initializeEarth runs again; the script is
\* present, so loadEarthScript resolves at once
RecoverWait(t) ==
  /\ tasks[t].pc = "recoverWait"
  /\ scriptLoaded
  /\ \E oc \in outcomesFor(firstBatch(dataCentersData)) : initBody(t, oc)
  /\ UNCHANGED <<props, closure, widthState, dataCentersData, contextLostCount,
                 isInitialized, cleanupPending, scriptLoaded, apiResponse, loaderVars>>
  /\ UNCHANGED legacyVars
  /\ UNCHANGED <<popupNode, hostCalls, popupPlace, interactionOff>>

(***************************************************************************)
(* Renders of the host                                                     *)
(***************************************************************************)
\* the cleanup the mount effect returned; it runs when the effect's dependency
\* (initializeEarth) changes, and the effect then returns early without another
runCleanup ==
  /\ engines' = destroyEngine(earthInstanceRef)
  /\ spritesCache' = <<>>
  /\ contextLostCount' = 0
  /\ popupFunctionsRef' = FALSE
  /\ cleanupPending' = FALSE
  /\ popupNode' = NoPopupNode
  /\ dom' = [dom EXCEPT !.popup = removeById(@)]

\* the host renders the component with other breakpoint flags
SetFlags(f) ==
  /\ f /= props
  /\ props' = f
  /\ IF cleanupPending
     THEN runCleanup
     ELSE UNCHANGED <<engines, spritesCache, contextLostCount, popupFunctionsRef,
                      cleanupPending, popupNode, dom>>
  /\ zoomState' = deriveBounds(f)
  /\ widthState' = [widthState EXCEPT !.current = deriveWidth(f)]
  /\ UNCHANGED <<closure, earthInstanceRef, dataCentersData, isInitialized,
                 scriptLoaded, apiResponse, loaderVars, tasks>>
  /\ UNCHANGED legacyVars
  /\ UNCHANGED <<popups, hostCalls, popupPlace, interactionOff>>

\* the host renders the component with the same flags and a new click callback
HostRerender ==
  /\ cleanupPending
  /\ runCleanup
  /\ UNCHANGED <<props, closure, zoomState, widthState, earthInstanceRef,
                 dataCentersData, isInitialized, scriptLoaded, apiResponse, loaderVars, tasks>>
  /\ UNCHANGED legacyVars
  /\ UNCHANGED <<popups, hostCalls, popupPlace, interactionOff>>

(***************************************************************************)
(* Specifications                                                          *)
(***************************************************************************)
\* The controller: viewport, renders, initialisation and recovery.  The data API
\* answers with ApiResponses, for which createSprites has nothing to create, so
\* its timers never run here; SpecPopulate is createSprites with records.
Next ==
  \/ zoomIn
  \/ zoomOut
  \/ resetZoom
  \/ \E f \in Flags : SetFlags(f)
  \/ HostRerender
  \/ \E t \in 1..Len(tasks) : ScriptLoaded(t)
  \/ \E t \in 1..Len(tasks) : ScriptFailed(t)
  \/ \E t \in 1..Len(tasks) : FetchResolved(t)
  \/ \E t \in 1..Len(tasks) : FetchRejected(t)
  \/ \E t \in 1..Len(tasks) : RecoverTimer(t)
  \/ \E t \in 1..Len(tasks) : RecoverWait(t)
  \/ \E e \in 1..Len(engines) : ContextLost(e)

Spec == Init /\ [][Next]_vars

\* createSprites on its own: the controller has constructed its first engine and
\* awaits the data API, which answers with any of PopulateInputs
InitPopulate ==
  /\ props = [isMobile |-> FALSE, isTablet |-> FALSE, isMedium |-> FALSE]
  /\ closure = props
  /\ zoomState = [deriveBounds(props) EXCEPT !.current = initialZoom(closure)]
  /\ widthState = [current |-> deriveWidth(props), min |-> widthMin, max |-> widthMax,
                   multiplier |-> widthMultiplier]
  /\ earthInstanceRef = 1
  /\ engines = << "live" >>
  /\ spritesCache = <<>>
  /\ dataCentersData = <<>>
  /\ contextLostCount = 0
  /\ popupFunctionsRef = TRUE
  /\ isInitialized = TRUE
  /\ cleanupPending = TRUE
  /\ scriptLoaded = TRUE
  /\ loadPromise = 1
  /\ scripts = << "loaded" >>
  /\ apiResponse \in PopulateInputs
  /\ tasks = << [NoTask EXCEPT !.pc = "fetch", !.earth = 1] >>
  /\ isRecovering = FALSE
  /\ webglLostRef = FALSE
  /\ pendingSpritesRef = <<>>
  /\ eventsWired = FALSE
  /\ popups = << NoPopup >>
  /\ popupNode = NoPopupNode
  /\ hostCalls = {}
  /\ popupPlace = NoPlace
  /\ interactionOff = {}
  /\ dom = OneOfEach

NextPopulate ==
  \/ \E t \in 1..Len(tasks) : FetchResolved(t)
  \/ \E t \in 1..Len(tasks) : BatchTimer(t)
  \/ \E t \in 1..Len(tasks) : RetryTimer(t)

SpecPopulate == InitPopulate /\ [][NextPopulate]_vars

\* a delay createSprites awaits is pending: BatchTimer or RetryTimer is enabled
timerPending == \E t \in 1..Len(tasks) : tasks[t].pc \in {"batchWait", "retryWait"}

\* a pending delay elapses and the call goes on: a BatchTimer or RetryTimer step
timerElapses ==
  \E t \in 1..Len(tasks) :
    /\ tasks[t].pc \in {"batchWait", "retryWait"}
    /\ tasks'[t] /= tasks[t]

\* the delays createSprites awaits are timers of the browser, and each one fires:
\* weak fairness of the timer steps, WF_vars(BatchTimer \/ RetryTimer), written
\* with the state predicate that says when they are enabled
FairPopulate == ([]<>~timerPending) \/ ([]<><<timerElapses>>_vars)

SpecPopulateFair == InitPopulate /\ [][NextPopulate]_vars /\ FairPopulate

(***************************************************************************)
(* The iteration at lines 2324-3346: zoom without width, isRecovering,     *)
(* recovery on webglcontextrestored, createSprites without a retry queue   *)
(***************************************************************************)
zoomStep_C == 20
resetLevel_C == 110

deriveBounds_C(f) ==
  [current |-> IF f.isMedium THEN 100 ELSE 130,
   min     |-> IF f.isMedium THEN 100 ELSE 130,
   max     |-> IF f.isMobile THEN 160 ELSE IF f.isTablet THEN 180
               ELSE IF f.isMedium THEN 140 ELSE 190,
   step    |-> zoomStep_C]

\* the level the timer of initializeEarth applies
initialZoom_C(f) == IF f.isMedium THEN 100 ELSE 130

\* zoom calls that test nothing before they act
zoomGuard_C_open(earth, recovering) == TRUE

\* the test zoomIn, zoomOut and resetZoom open with: an engine is held and no
\* recovery is running
zoomGuard_C(earth, recovering) == earth /= 0 /\ ~recovering

zoomIn_C ==
  /\ zoomGuard_C(earthInstanceRef, isRecovering)
  /\ zoomState' = [zoomState EXCEPT !.current = Min(@ + zoomState.step, zoomState.max)]
  /\ UNCHANGED <<props, closure, widthState, earthInstanceRef, engines, spritesCache,
                 dataCentersData, contextLostCount, popupFunctionsRef, isInitialized,
                 cleanupPending, scriptLoaded, apiResponse, loaderVars, tasks, legacyVars>>
  /\ UNCHANGED uiVars

zoomOut_C ==
  /\ zoomGuard_C(earthInstanceRef, isRecovering)
  /\ zoomState' = [zoomState EXCEPT !.current = Max(@ - zoomState.step, zoomState.min)]
  /\ UNCHANGED <<props, closure, widthState, earthInstanceRef, engines, spritesCache,
                 dataCentersData, contextLostCount, popupFunctionsRef, isInitialized,
                 cleanupPending, scriptLoaded, apiResponse, loaderVars, tasks, legacyVars>>
  /\ UNCHANGED uiVars

resetZoom_C ==
  /\ zoomGuard_C(earthInstanceRef, isRecovering)
  /\ zoomState' = [zoomState EXCEPT !.current = resetLevel_C]
  /\ UNCHANGED <<props, closure, widthState, earthInstanceRef, engines, spritesCache,
                 dataCentersData, contextLostCount, popupFunctionsRef, isInitialized,
                 cleanupPending, scriptLoaded, apiResponse, loaderVars, tasks, legacyVars>>
  /\ UNCHANGED uiVars

\* one region of createSpriteBatch: invalid data, a falsy sprite and an exception
\* are all a `continue`
attemptRegion_C(st, entry, outcome) ==
  LET t == st.task
      k == indexOf(t.regions, entry.region)
      valid == regionIsValid(t.centers, entry.region)
      t1 == [t EXCEPT !.tries[k] = @ + 1,
                      !.calls[k] = @ + (IF valid THEN 1 ELSE 0),
                      !.allSucceeded = @ /\ (~valid \/ outcome = "sprite")]
  IN IF valid /\ outcome = "sprite"
     THEN [task |-> [t1 EXCEPT !.markers[k] = @ + 1],
           sprites |-> Append(st.sprites, spriteOf(t.centers, entry.region, t.earth))]
     ELSE [st EXCEPT !.task = t1]

RECURSIVE attemptAll_C(_, _, _)
attemptAll_C(st, entries, oc) ==
  IF entries = <<>> THEN st
  ELSE attemptAll_C(attemptRegion_C(st, Head(entries), oc[Head(entries).region]),
                    Tail(entries), oc)

\* createSpriteBatch: one batch (of batchSize = 5 here too), then a timer for the next
createSpriteBatch_C(st, oc, recovering) ==
  IF recovering THEN [st EXCEPT !.task.pc = "done"]
  ELSE LET entries == batchOf(st.task)
           after == attemptAll_C(st, entries, oc)
           t == [after.task EXCEPT !.idx = @ + Len(entries)]
       IN [after EXCEPT !.task =
             [t EXCEPT !.pc = IF t.idx < Len(t.regions) THEN "batchWait" ELSE "done"]]

createSprites_C(task, sprites, earth, centers, popupFns, oc, recovering) ==
  IF Len(centers) = 0 \/ ~popupFns
  THEN [task |-> [task EXCEPT !.pc = "done"], sprites |-> sprites]
  ELSE createSpriteBatch_C([task |-> startSprites(task, earth, centers),
                            sprites |-> sprites], oc, recovering)

Init_C ==
  /\ props \in Flags
  /\ closure = props
  /\ zoomState = deriveBounds_C(props)
  /\ widthState = [current |-> widthMin, min |-> widthMin, max |-> widthMax,
                   multiplier |-> widthMultiplier]
  /\ earthInstanceRef = 0
  /\ engines = <<>>
  /\ spritesCache = <<>>
  /\ dataCentersData = <<>>
  /\ contextLostCount = 0
  /\ popupFunctionsRef = FALSE
  /\ isInitialized = TRUE
  /\ cleanupPending = TRUE
  /\ scriptLoaded = FALSE
  /\ loadPromise = 0
  /\ scripts = << "loading" >>
  /\ apiResponse \in ApiResponses
  /\ tasks = << [NoTask EXCEPT !.pc = "load", !.script = 1] >>
  /\ isRecovering = FALSE
  /\ webglLostRef = FALSE
  /\ pendingSpritesRef = <<>>
  /\ eventsWired = FALSE
  /\ popups = <<>>
  /\ popupNode = NoPopupNode
  /\ hostCalls = {}
  /\ popupPlace = NoPlace
  /\ interactionOff = {}
  /\ dom = NoDom

\* initializeEarth from the resolution of loadEarthScript to its end: the fetch is
\* not awaited, the initial zoom is left to a timer
initBody_C(t, oc) ==
  LET e == Len(engines) + 1 IN
  /\ engines' = Append(engines, "live")
  /\ earthInstanceRef' = e
  /\ popupFunctionsRef' = TRUE
  /\ IF Len(dataCentersData) > 0
     THEN LET r == createSprites_C([tasks[t] EXCEPT !.zoomTimer = TRUE], spritesCache, e,
                                   dataCentersData, TRUE, oc, isRecovering)
          IN /\ tasks' = [tasks EXCEPT ![t] = r.task]
             /\ spritesCache' = r.sprites
     ELSE /\ tasks' = [tasks EXCEPT ![t] = [@ EXCEPT !.pc = "fetch", !.earth = e,
                                                     !.zoomTimer = TRUE]]
          /\ UNCHANGED spritesCache
  /\ popups' = Append(popups, NoPopup)
  /\ dom' = initializeEarthNodes(dom)

ScriptLoaded_C(t) ==
  /\ tasks[t].pc = "load"
  /\ scripts' = [scripts EXCEPT ![tasks[t].script] = "loaded"]
  /\ UNCHANGED loadPromise
  /\ scriptLoaded' = TRUE
  /\ \E oc \in outcomesFor(firstBatch(dataCentersData)) : initBody_C(t, oc)
  /\ UNCHANGED <<props, closure, zoomState, widthState, dataCentersData,
                 contextLostCount, isInitialized, cleanupPending, apiResponse,
                 legacyVars>>
  /\ UNCHANGED <<popupNode, hostCalls, popupPlace, interactionOff>>

\* loadEarthScript rejects: the catch of initializeEarth clears isRecovering
ScriptFailed_C(t) ==
  /\ tasks[t].pc = "load"
  /\ scripts' = [scripts EXCEPT ![tasks[t].script] = "failed"]
  /\ UNCHANGED loadPromise
  /\ ~scriptLoaded
  /\ tasks' = [tasks EXCEPT ![t] = failAt(@, "load")]
  /\ isRecovering' = FALSE
  /\ UNCHANGED <<props, closure, zoomState, widthState, earthInstanceRef, engines,
                 spritesCache, dataCentersData, contextLostCount, popupFunctionsRef,
                 isInitialized, cleanupPending, scriptLoaded, apiResponse,
                 webglLostRef, pendingSpritesRef, eventsWired>>
  /\ UNCHANGED uiVars

\* the 50 ms timer of initializeEarth: the initial zoom for the flags it captured
InitZoomTimer_C(t) ==
  /\ tasks[t].zoomTimer
  /\ tasks' = [tasks EXCEPT ![t].zoomTimer = FALSE]
  /\ zoomState' = IF isRecovering THEN zoomState
                  ELSE [zoomState EXCEPT !.current = initialZoom_C(closure)]
  /\ UNCHANGED <<props, closure, widthState, earthInstanceRef, engines, spritesCache,
                 dataCentersData, contextLostCount, popupFunctionsRef, isInitialized,
                 cleanupPending, scriptLoaded, apiResponse, loaderVars, legacyVars>>
  /\ UNCHANGED uiVars

FetchResolved_C(t) ==
  /\ tasks[t].pc = "fetch"
  /\ LET centers == withNodes(apiResponse) IN
     /\ dataCentersData' = centers
     /\ \E oc \in outcomesFor(firstBatch(centers)) :
          LET r == createSprites_C(tasks[t], spritesCache, tasks[t].earth, centers,
                                   popupFunctionsRef, oc, isRecovering)
          IN /\ tasks' = [tasks EXCEPT ![t] = r.task]
             /\ spritesCache' = r.sprites
  /\ UNCHANGED <<props, closure, zoomState, widthState, earthInstanceRef, engines,
                 contextLostCount, popupFunctionsRef, isInitialized, cleanupPending,
                 scriptLoaded, apiResponse, loaderVars, legacyVars>>
  /\ UNCHANGED uiVars

FetchRejected_C(t) ==
  /\ tasks[t].pc = "fetch"
  /\ tasks' = [tasks EXCEPT ![t].pc = "done"]
  /\ UNCHANGED <<props, closure, zoomState, widthState, earthInstanceRef, engines,
                 spritesCache, dataCentersData, contextLostCount, popupFunctionsRef,
                 isInitialized, cleanupPending, scriptLoaded, apiResponse, loaderVars, legacyVars>>
  /\ UNCHANGED uiVars

\* the 100 ms timer between two batches
BatchTimer_C(t) ==
  /\ tasks[t].pc = "batchWait"
  /\ \E oc \in outcomesFor(batchOf(tasks[t])) :
       LET r == createSpriteBatch_C([task |-> tasks[t], sprites |-> spritesCache], oc,
                                    isRecovering)
       IN /\ tasks' = [tasks EXCEPT ![t] = r.task]
          /\ spritesCache' = r.sprites
  /\ UNCHANGED <<props, closure, zoomState, widthState, earthInstanceRef, engines,
                 dataCentersData, contextLostCount, popupFunctionsRef, isInitialized,
                 cleanupPending, scriptLoaded, apiResponse, loaderVars, legacyVars>>
  /\ UNCHANGED uiVars

\* the GPU context of engine e is lost: the handler only hides the popup
ContextLost_C(e) ==
  /\ e \in 1..Len(engines)
  /\ engines[e] = "live"
  /\ engines' = [engines EXCEPT ![e] = "lost"]
  /\ UNCHANGED <<props, closure, zoomState, widthState, earthInstanceRef,
                 spritesCache, dataCentersData, contextLostCount, popupFunctionsRef,
                 isInitialized, cleanupPending, scriptLoaded, apiResponse, loaderVars, tasks,
                 legacyVars>>
  /\ popupNode' = [popupNode EXCEPT !.display = "none"]
  /\ UNCHANGED <<popups, hostCalls, popupPlace, interactionOff, dom>>

\* webglcontextrestored: recoverWebGLContext is scheduled 100 ms later
ContextRestored_C(e) ==
  /\ e \in 1..Len(engines)
  /\ engines[e] = "lost"
  /\ Len(tasks) < MaxTasks
  /\ engines' = [engines EXCEPT ![e] = "live"]
  /\ tasks' = Append(tasks, [NoTask EXCEPT !.kind = "recover", !.pc = "recoverTimer"])
  /\ UNCHANGED <<props, closure, zoomState, widthState, earthInstanceRef,
                 spritesCache, dataCentersData, contextLostCount, popupFunctionsRef,
                 isInitialized, cleanupPending, scriptLoaded, apiResponse, loaderVars, legacyVars>>
  /\ UNCHANGED uiVars

\* recoverWebGLContext from its entry to its await of one second
RecoverTimer_C(t) ==
  /\ tasks[t].pc = "recoverTimer"
  /\ IF isRecovering \/ contextLostCount >= maxRecoveryAttempts
     THEN /\ tasks' = [tasks EXCEPT ![t].pc = "done"]
          /\ UNCHANGED <<contextLostCount, engines, earthInstanceRef, spritesCache,
                         isRecovering>>
     ELSE /\ isRecovering' = TRUE
          /\ contextLostCount' = contextLostCount + 1
          /\ engines' = destroyEngine(earthInstanceRef)
          /\ earthInstanceRef' = 0
          /\ spritesCache' = <<>>
          /\ tasks' = [tasks EXCEPT ![t].pc = "recoverWait"]
  /\ UNCHANGED <<props, closure, zoomState, widthState, dataCentersData,
                 popupFunctionsRef, isInitialized, cleanupPending, scriptLoaded,
                 apiResponse, loaderVars, webglLostRef, pendingSpritesRef, eventsWired>>
  /\ UNCHANGED uiVars

\* the second elapses: initializeEarth runs to its end, then the finally block
RecoverWait_C(t) ==
  /\ tasks[t].pc = "recoverWait"
  /\ scriptLoaded
  /\ \E oc \in outcomesFor(firstBatch(dataCentersData)) : initBody_C(t, oc)
  /\ isRecovering' = FALSE
  /\ UNCHANGED <<props, closure, zoomState, widthState, dataCentersData,
                 contextLostCount, isInitialized, cleanupPending, scriptLoaded,
                 apiResponse, loaderVars, webglLostRef, pendingSpritesRef, eventsWired>>
  /\ UNCHANGED <<popupNode, hostCalls, popupPlace, interactionOff>>

\* the cleanup of the mount effect
runCleanup_C ==
  /\ engines' = destroyEngine(earthInstanceRef)
  /\ spritesCache' = <<>>
  /\ isRecovering' = FALSE
  /\ contextLostCount' = 0
  /\ popupFunctionsRef' = FALSE
  /\ cleanupPending' = FALSE
  /\ popupNode' = NoPopupNode
  /\ dom' = [dom EXCEPT !.popup = removeById(@)]

SetFlags_C(f) ==
  /\ f /= props
  /\ props' = f
  /\ IF cleanupPending
     THEN runCleanup_C
     ELSE UNCHANGED <<engines, spritesCache, isRecovering, contextLostCount,
                      popupFunctionsRef, cleanupPending, popupNode, dom>>
  /\ zoomState' = deriveBounds_C(f)
  /\ UNCHANGED <<closure, widthState, earthInstanceRef, dataCentersData,
                 isInitialized, scriptLoaded, apiResponse, loaderVars, tasks, webglLostRef,
                 pendingSpritesRef, eventsWired>>
  /\ UNCHANGED <<popups, hostCalls, popupPlace, interactionOff>>

HostRerender_C ==
  /\ cleanupPending
  /\ runCleanup_C
  /\ UNCHANGED <<props, closure, zoomState, widthState, earthInstanceRef,
                 dataCentersData, isInitialized, scriptLoaded, apiResponse, loaderVars, tasks,
                 webglLostRef, pendingSpritesRef, eventsWired>>
  /\ UNCHANGED <<popups, hostCalls, popupPlace, interactionOff>>

Next_C ==
  \/ zoomIn_C
  \/ zoomOut_C
  \/ resetZoom_C
  \/ \E f \in Flags : SetFlags_C(f)
  \/ HostRerender_C
  \/ \E t \in 1..Len(tasks) : ScriptLoaded_C(t)
  \/ \E t \in 1..Len(tasks) : ScriptFailed_C(t)
  \/ \E t \in 1..Len(tasks) : InitZoomTimer_C(t)
  \/ \E t \in 1..Len(tasks) : FetchResolved_C(t)
  \/ \E t \in 1..Len(tasks) : FetchRejected_C(t)
  \/ \E e \in 1..Len(engines) : ContextLost_C(e)
  \/ \E e \in 1..Len(engines) : ContextRestored_C(e)
  \/ \E t \in 1..Len(tasks) : RecoverTimer_C(t)
  \/ \E t \in 1..Len(tasks) : RecoverWait_C(t)

Spec_C == Init_C /\ [][Next_C]_vars

(***************************************************************************)
(* The iteration at lines 1-1139: webglLostRef, pendingSpritesRef, replay  *)
(* of pending sprites on webglcontextrestored                              *)
(***************************************************************************)
batchSize_A == 2

\* the factory of this iteration can also lose the GPU context while it throws
Outcomes_A == Outcomes \cup {"throwsLost"}

\* isGLLost(): the context of the canvas is lost, whether or not the event was seen
isGLLost(engs) ==
  earthInstanceRef /= 0 /\ engs[earthInstanceRef] \in {"lost", "lostNotified"}

loseContext(engs) ==
  IF earthInstanceRef /= 0 /\ engs[earthInstanceRef] = "live"
  THEN [engs EXCEPT ![earthInstanceRef] = "lost"]
  ELSE engs

afterFactory(engs, outcome) == IF outcome = "throwsLost" THEN loseContext(engs) ELSE engs

\* one region of createSpriteBatch; st holds the call (its index and record), the
\* marker set, the pending queue and the engines
attemptRegion_A(st, region, outcome) ==
  LET t == st.task
      k == indexOf(t.regions, region)
      counted == [t EXCEPT !.tries[k] = @ + 1]
      called == [counted EXCEPT !.calls[k] = @ + 1,
                                !.allSucceeded = @ /\ outcome = "sprite"]
      queued == Append(st.pending, [region |-> region, call |-> st.call])
  IN IF ~regionIsValid(t.centers, region) THEN [st EXCEPT !.task = counted]
     ELSE IF isGLLost(st.engines) \/ webglLostRef
     THEN [st EXCEPT !.task = counted, !.pending = queued]
     ELSE IF earthInstanceRef = 0
     THEN [st EXCEPT !.task = counted, !.pending = queued]
     ELSE CASE outcome = "sprite" ->
                 [st EXCEPT !.task = [called EXCEPT !.markers[k] = @ + 1],
                            !.sprites = Append(@, spriteOf(t.centers, region,
                                                           earthInstanceRef))]
            [] outcome = "falsy" -> [st EXCEPT !.task = called]
            [] OTHER ->
                 LET engs == afterFactory(st.engines, outcome) IN
                 [st EXCEPT !.task = called, !.engines = engs,
                            !.pending = IF isGLLost(engs) THEN queued ELSE @]

RECURSIVE attemptAll_A(_, _, _)
attemptAll_A(st, entries, oc) ==
  IF entries = <<>> THEN st
  ELSE attemptAll_A(attemptRegion_A(st, Head(entries).region, oc[Head(entries).region]),
                    Tail(entries), oc)

batchOf_A(task) ==
  LET keys == task.regions
      endIndex == Min(task.idx + batchSize_A, Len(keys))
  IN [i \in 1..(endIndex - task.idx) |-> [region |-> keys[task.idx + i], attempts |-> 0]]

\* createSpriteBatch: one batch, then a timer for the next
createSpriteBatch_A(st, oc) ==
  LET entries == batchOf_A(st.task)
      after == attemptAll_A(st, entries, oc)
      t == [after.task EXCEPT !.idx = @ + Len(entries)]
  IN [after EXCEPT !.task =
        [t EXCEPT !.pc = IF t.idx < Len(t.regions) THEN "batchWait" ELSE "done"]]

outcomesFor_A(entries) == [regionsIn(entries) -> Outcomes_A]

\* one item of runBatch, the loop of createSpriteBatchFromPending; st holds the
\* tasks, the marker set, the pending queue, the engines, and how the loop ended
replayItem_A(st, outcome) ==
  LET item == Head(st.pending)
      rest == Tail(st.pending)
      c == item.call
      t == st.tasks[c]
      k == indexOf(t.regions, item.region)
      counted == [st.tasks EXCEPT ![c].tries[k] = @ + 1]
      called == [counted EXCEPT ![c].calls[k] = @ + 1]
  IN IF earthInstanceRef = 0
     THEN [st EXCEPT !.tasks = counted, !.returned = TRUE]
     ELSE CASE outcome = "sprite" ->
                 [st EXCEPT !.tasks = [called EXCEPT ![c].markers[k] = @ + 1],
                            !.sprites = Append(@, spriteOf(t.centers, item.region,
                                                           earthInstanceRef)),
                            !.pending = rest]
            [] outcome = "falsy" -> [st EXCEPT !.tasks = called, !.pending = rest]
            [] OTHER ->
                 LET engs == afterFactory(st.engines, outcome) IN
                 IF isGLLost(engs)
                 THEN [st EXCEPT !.tasks = called, !.engines = engs,
                                 !.returned = TRUE, !.haltedOn = item.region]
                 ELSE [st EXCEPT !.tasks = called, !.pending = rest]

RECURSIVE replayItems_A(_, _, _)
replayItems_A(st, n, oc) ==
  IF n = 0 \/ st.returned THEN st
  ELSE replayItems_A(replayItem_A(st, oc[Head(st.pending).region]), n - 1, oc)

\* the items one run of runBatch can reach
replayBatchOf(pending) == SubSeq(pending, 1, Min(batchSize_A, Len(pending)))

\* runBatch of replay task r: up to two items, then a timer while items remain
runBatch_A(r, oc) ==
  LET st0 == [tasks |-> tasks, sprites |-> spritesCache, pending |-> pendingSpritesRef,
              engines |-> engines, returned |-> FALSE, haltedOn |-> ""]
      st == replayItems_A(st0, Len(replayBatchOf(pendingSpritesRef)), oc)
      next == IF st.returned THEN "done"
              ELSE IF Len(st.pending) > 0 THEN "replayWait" ELSE "done"
  IN /\ tasks' = [st.tasks EXCEPT ![r].pc = next, ![r].haltedOn = st.haltedOn]
     /\ spritesCache' = st.sprites
     /\ pendingSpritesRef' = st.pending
     /\ engines' = st.engines

\* record lists of this iteration's runs
PopulateInputs_A ==
  {ScenarioRecords, validRecords(MaxRegions \div 2),
   << DC("dc1", "Europe, DE", NaN, Num(8), 3), DC("dc3", "Asia, JP", Num(35), Num(139), 4) >>}

\* the engine exists, its canvas events are not wired yet, the data API is awaited
Init_A ==
  /\ props = [isMobile |-> FALSE, isTablet |-> FALSE, isMedium |-> FALSE]
  /\ closure = props
  /\ zoomState = [deriveBounds_C(props) EXCEPT !.current = initialZoom_C(props)]
  /\ widthState = [current |-> widthMin, min |-> widthMin, max |-> widthMax,
                   multiplier |-> widthMultiplier]
  /\ earthInstanceRef = 1
  /\ engines = << "live" >>
  /\ spritesCache = <<>>
  /\ dataCentersData = <<>>
  /\ contextLostCount = 0
  /\ popupFunctionsRef = TRUE
  /\ isInitialized = TRUE
  /\ cleanupPending = TRUE
  /\ scriptLoaded = TRUE
  /\ loadPromise = 0
  /\ scripts = << "loaded" >>
  /\ apiResponse \in PopulateInputs_A
  /\ tasks = << [NoTask EXCEPT !.pc = "fetch", !.earth = 1] >>
  /\ isRecovering = FALSE
  /\ webglLostRef = FALSE
  /\ pendingSpritesRef = <<>>
  /\ eventsWired = FALSE
  /\ popups = << NoPopup >>
  /\ popupNode = NoPopupNode
  /\ hostCalls = {}
  /\ popupPlace = NoPlace
  /\ interactionOff = {}
  /\ dom = OneOfEach

\* the data API answers: group the records and run the first batch
FetchResolved_A(t) ==
  /\ tasks[t].pc = "fetch"
  /\ LET centers == withNodes(apiResponse)
         started == startSprites(tasks[t], earthInstanceRef, centers)
     IN \E oc \in outcomesFor_A(batchOf_A(started)) :
          LET r == createSpriteBatch_A([task |-> started, call |-> t,
                                        sprites |-> spritesCache,
                                        pending |-> pendingSpritesRef,
                                        engines |-> engines], oc)
          IN /\ tasks' = [tasks EXCEPT ![t] = r.task]
             /\ spritesCache' = r.sprites
             /\ pendingSpritesRef' = r.pending
             /\ engines' = r.engines
  /\ UNCHANGED <<props, closure, zoomState, widthState, earthInstanceRef,
                 dataCentersData, contextLostCount, popupFunctionsRef, isInitialized,
                 cleanupPending, scriptLoaded, apiResponse, loaderVars, isRecovering,
                 webglLostRef, eventsWired>>
  /\ UNCHANGED uiVars

\* the 120 ms timer between two batches
BatchTimer_A(t) ==
  /\ tasks[t].pc = "batchWait"
  /\ \E oc \in outcomesFor_A(batchOf_A(tasks[t])) :
       LET r == createSpriteBatch_A([task |-> tasks[t], call |-> t,
                                     sprites |-> spritesCache,
                                     pending |-> pendingSpritesRef,
                                     engines |-> engines], oc)
       IN /\ tasks' = [tasks EXCEPT ![t] = r.task]
          /\ spritesCache' = r.sprites
          /\ pendingSpritesRef' = r.pending
          /\ engines' = r.engines
  /\ UNCHANGED <<props, closure, zoomState, widthState, earthInstanceRef,
                 dataCentersData, contextLostCount, popupFunctionsRef, isInitialized,
                 cleanupPending, scriptLoaded, apiResponse, loaderVars, isRecovering,
                 webglLostRef, eventsWired>>
  /\ UNCHANGED uiVars

\* 250 ms after the engine was made: wireCanvasContextEventsOnce
WireTimer_A ==
  /\ earthInstanceRef /= 0
  /\ ~eventsWired
  /\ eventsWired' = TRUE
  /\ UNCHANGED <<props, closure, zoomState, widthState, earthInstanceRef, engines,
                 spritesCache, dataCentersData, contextLostCount, popupFunctionsRef,
                 isInitialized, cleanupPending, scriptLoaded, apiResponse, loaderVars, tasks,
                 isRecovering, webglLostRef, pendingSpritesRef>>
  /\ UNCHANGED uiVars

\* the GPU context of engine e is lost; the event follows
GLLost_A(e) ==
  /\ e \in 1..Len(engines)
  /\ engines[e] = "live"
  /\ engines' = [engines EXCEPT ![e] = "lost"]
  /\ UNCHANGED <<props, closure, zoomState, widthState, earthInstanceRef,
                 spritesCache, dataCentersData, contextLostCount, popupFunctionsRef,
                 isInitialized, cleanupPending, scriptLoaded, apiResponse, loaderVars, tasks,
                 legacyVars>>
  /\ UNCHANGED uiVars

\* webglcontextlost is dispatched: the handler, if wired, sets webglLostRef
LostEvent_A(e) ==
  /\ e \in 1..Len(engines)
  /\ engines[e] = "lost"
  /\ engines' = [engines EXCEPT ![e] = "lostNotified"]
  /\ webglLostRef' = (eventsWired \/ webglLostRef)
  /\ UNCHANGED <<props, closure, zoomState, widthState, earthInstanceRef,
                 spritesCache, dataCentersData, contextLostCount, popupFunctionsRef,
                 isInitialized, cleanupPending, scriptLoaded, apiResponse, loaderVars, tasks,
                 isRecovering, pendingSpritesRef, eventsWired>>
  /\ UNCHANGED uiVars

\* webglcontextrestored (the lost handler prevented the default): the flag is
\* cleared and the replay is scheduled 250 ms later
ContextRestored_A(e) ==
  /\ e \in 1..Len(engines)
  /\ engines[e] = "lostNotified"
  /\ webglLostRef
  /\ Len(tasks) < MaxTasks
  /\ engines' = [engines EXCEPT ![e] = "live"]
  /\ webglLostRef' = FALSE
  /\ tasks' = Append(tasks, [NoTask EXCEPT !.kind = "replay", !.pc = "replayTimer"])
  /\ UNCHANGED <<props, closure, zoomState, widthState, earthInstanceRef,
                 spritesCache, dataCentersData, contextLostCount, popupFunctionsRef,
                 isInitialized, cleanupPending, scriptLoaded, apiResponse, loaderVars,
                 isRecovering, pendingSpritesRef, eventsWired>>
  /\ UNCHANGED uiVars

\* the replay timer: createSpriteBatchFromPending when something is pending
ReplayTimer_A(t) ==
  /\ tasks[t].pc = "replayTimer"
  /\ IF Len(pendingSpritesRef) = 0
     THEN /\ tasks' = [tasks EXCEPT ![t].pc = "done"]
          /\ UNCHANGED <<spritesCache, pendingSpritesRef, engines>>
     ELSE \E oc \in outcomesFor_A(replayBatchOf(pendingSpritesRef)) : runBatch_A(t, oc)
  /\ UNCHANGED <<props, closure, zoomState, widthState, earthInstanceRef,
                 dataCentersData, contextLostCount, popupFunctionsRef, isInitialized,
                 cleanupPending, scriptLoaded, apiResponse, loaderVars, isRecovering,
                 webglLostRef, eventsWired>>
  /\ UNCHANGED uiVars

\* the 120 ms timer between two replay batches
ReplayBatchTimer_A(t) ==
  /\ tasks[t].pc = "replayWait"
  /\ \E oc \in outcomesFor_A(replayBatchOf(pendingSpritesRef)) : runBatch_A(t, oc)
  /\ UNCHANGED <<props, closure, zoomState, widthState, earthInstanceRef,
                 dataCentersData, contextLostCount, popupFunctionsRef, isInitialized,
                 cleanupPending, scriptLoaded, apiResponse, loaderVars, isRecovering,
                 webglLostRef, eventsWired>>
  /\ UNCHANGED uiVars

Next_A ==
  \/ \E t \in 1..Len(tasks) : FetchResolved_A(t)
  \/ \E t \in 1..Len(tasks) : BatchTimer_A(t)
  \/ WireTimer_A
  \/ \E e \in 1..Len(engines) : GLLost_A(e)
  \/ \E e \in 1..Len(engines) : LostEvent_A(e)
  \/ \E e \in 1..Len(engines) : ContextRestored_A(e)
  \/ \E t \in 1..Len(tasks) : ReplayTimer_A(t)
  \/ \E t \in 1..Len(tasks) : ReplayBatchTimer_A(t)

Spec_A == Init_A /\ [][Next_A]_vars

(***************************************************************************)
(* PopupController: setupPopupFunctionality, and the marker handlers that  *)
(* createSprites binds (lines 1491-1762 and 1820-1842)                      *)
(***************************************************************************)
hideDebounceMs == 150

\* a show that leaves a scheduled hide in place
showPopup_keepTimer(p, group) ==
  [p EXCEPT !.currentGroupData = group, !.currentExpandedIndex = 0, !.isVisible = TRUE]

\* showPopup(region, group), the closure's part
showPopup(p, group) ==
  [p EXCEPT !.hideTimer = 0, !.currentGroupData = group, !.currentExpandedIndex = 0,
            !.isVisible = TRUE]

\* a hide that schedules one more timer whenever it is called
hidePopup_noGuard(p) == [p EXCEPT !.hideTimer = IF @ < 2 THEN @ + 1 ELSE @]

\* hidePopup(): hideTimer counts the timeouts of this closure that are pending
hidePopup(p) == IF p.hideTimer > 0 THEN p ELSE [p EXCEPT !.hideTimer = 1]

\* the callback hidePopup scheduled, the closure's part
hideTimerFires(p) ==
  [p EXCEPT !.isVisible = FALSE, !.currentGroupData = <<>>,
            !.currentExpandedIndex = -1, !.hideTimer = 0]

\* a toggle that also takes the popup for shown anew
toggleDataCenter_reshow(p, index) ==
  [p EXCEPT !.currentExpandedIndex = index, !.hideTimer = 0]

\* toggleDataCenter(index), the closure's part
toggleDataCenter(p, index) ==
  IF index = p.currentExpandedIndex THEN p ELSE [p EXCEPT !.currentExpandedIndex = index]

\* renderPopupContent() of closure g: it returns early on an empty group
renderPopupContent(node, g, p) ==
  IF Len(p.currentGroupData) = 0
  THEN node
  ELSE [node EXCEPT !.renderedBy = g, !.group = p.currentGroupData,
                    !.expanded = p.currentExpandedIndex]

\* the mouseenter listener of the popup node
popupMouseEnter(p) == [p EXCEPT !.isHoveringPopup = TRUE, !.hideTimer = 0]

\* the mouseleave listener of the popup node
popupMouseLeave(p) == hidePopup([p EXCEPT !.isHoveringPopup = FALSE])

\* the container's mouseleave listener, and the document's mousemove listener for
\* a pointer outside the popup's rectangle (isHoveringDataCenter is never true)
pointerAway(p) == IF p.isVisible /\ ~p.isHoveringPopup THEN hidePopup(p) ELSE p

\* the markers the pointer can reach: those of the cache whose engine is live
hoverable == {i \in 1..Len(spritesCache) : engines[spritesCache[i].earth] = "live"}

\* the group createSprites closed over for a marker
groupOf(s) == regionMap(dataCentersData, s.region)

\* disableEarthInteraction(): autoRotate and orbit of the engine held are turned off
disableEarthInteraction(off, earth) == IF earth /= 0 THEN off \cup {earth} ELSE off

\* enableEarthInteraction(): autoRotate and orbit of the engine held are turned on
enableEarthInteraction(off, earth) == IF earth /= 0 THEN off \ {earth} ELSE off

popupFrame ==
  UNCHANGED <<popupPlace, dom, props, closure, zoomState, widthState, earthInstanceRef, engines,
              spritesCache, dataCentersData, contextLostCount, popupFunctionsRef,
              isInitialized, cleanupPending, scriptLoaded, apiResponse, loaderVars, tasks>>

\* a marker's mouseover listener; its functions are those of the closure that
\* setupPopupFunctionality created for the marker's engine
handleMouseOver(i) ==
  /\ i \in hoverable
  /\ LET s == spritesCache[i]
         g == s.earth
     IN IF closure.isMobile \/ closure.isTablet
        THEN UNCHANGED <<popups, popupNode, interactionOff>>
        ELSE LET p == showPopup(popups[g], groupOf(s)) IN
             /\ popups' = [popups EXCEPT ![g] = p]
             /\ popupNode' = renderPopupContent([popupNode EXCEPT !.display = "block"], g, p)
             /\ interactionOff' = disableEarthInteraction(interactionOff, earthInstanceRef)
  /\ UNCHANGED hostCalls
  /\ popupFrame
  /\ UNCHANGED legacyVars

\* a marker's mouseout listener
handleMouseOut(i) ==
  /\ i \in hoverable
  /\ IF closure.isMobile \/ closure.isTablet
     THEN UNCHANGED popups
     ELSE popups' = [popups EXCEPT ![spritesCache[i].earth] = hidePopup(@)]
  /\ UNCHANGED <<popupNode, hostCalls, popupPlace, interactionOff>>
  /\ popupFrame
  /\ UNCHANGED legacyVars

\* a marker's click listener; the host passes onMobileDataCenterClick
handleClick(i) ==
  /\ i \in hoverable
  /\ IF closure.isMobile \/ closure.isTablet \/ closure.isMedium
     THEN hostCalls' = {[record |-> spritesCache[i].first, flags |-> props]}
     ELSE UNCHANGED hostCalls
  /\ UNCHANGED <<popups, popupNode, interactionOff>>
  /\ popupFrame
  /\ UNCHANGED legacyVars

\* the pointer enters the displayed popup: the listener of every closure runs
PopupMouseEnter ==
  /\ popupNode.display = "block"
  /\ popups' = [g \in 1..Len(popups) |-> popupMouseEnter(popups[g])]
  /\ UNCHANGED <<popupNode, hostCalls, popupPlace, interactionOff>>
  /\ popupFrame
  /\ UNCHANGED legacyVars

\* the pointer leaves the popup
PopupMouseLeave ==
  /\ \E g \in 1..Len(popups) : popups[g].isHoveringPopup
  /\ popups' = [g \in 1..Len(popups) |-> popupMouseLeave(popups[g])]
  /\ UNCHANGED <<popupNode, hostCalls, popupPlace, interactionOff>>
  /\ popupFrame
  /\ UNCHANGED legacyVars

\* the pointer leaves the container; the listener exists on a big screen only
ContainerMouseLeave ==
  /\ isBigScreen(closure)
  /\ popups' = [g \in 1..Len(popups) |-> pointerAway(popups[g])]
  /\ UNCHANGED <<popupNode, hostCalls, popupPlace, interactionOff>>
  /\ popupFrame
  /\ UNCHANGED legacyVars

\* the pointer moves outside the popup's rectangle; big screen only
DocMouseMove ==
  /\ isBigScreen(closure)
  /\ Len(popups) > 0
  /\ popups' = [g \in 1..Len(popups) |-> pointerAway(popups[g])]
  /\ UNCHANGED <<popupNode, hostCalls, popupPlace, interactionOff>>
  /\ popupFrame
  /\ UNCHANGED legacyVars

\* the hide debounce of closure g elapses
HideTimer(g) ==
  /\ g \in 1..Len(popups)
  /\ popups[g].hideTimer > 0
  /\ popups' = [popups EXCEPT ![g] = hideTimerFires(@)]
  /\ popupNode' = [popupNode EXCEPT !.display = "none"]
  /\ interactionOff' = enableEarthInteraction(interactionOff, earthInstanceRef)
  /\ UNCHANGED hostCalls
  /\ popupFrame
  /\ UNCHANGED legacyVars

\* a click on an entry of the displayed multi-occupant popup: the listener is the
\* one bound by the closure that rendered the content
ToggleClick(index) ==
  /\ popupNode.display = "block"
  /\ popupNode.renderedBy > 0
  /\ isMultiple(popupNode.group)
  /\ index \in 0..(Len(popupNode.group) - 1)
  /\ LET g == popupNode.renderedBy
         p == toggleDataCenter(popups[g], index)
     IN /\ popups' = [popups EXCEPT ![g] = p]
        /\ popupNode' = IF index = popups[g].currentExpandedIndex
                        THEN popupNode
                        ELSE renderPopupContent(popupNode, g, p)
  /\ UNCHANGED <<hostCalls, interactionOff>>
  /\ popupFrame
  /\ UNCHANGED legacyVars

\* the flags the host derives from the window's width (src/src/app/page.tsx,
\* checkScreenSize): at most one of them is set
Breakpoints == {f \in Flags : Cardinality({k \in {"isMobile", "isTablet", "isMedium"} : f[k]}) <= 1}

\* recovery reaches initializeEarth again, with a factory that makes every marker
RecoverWaitOk(t) ==
  /\ tasks[t].pc = "recoverWait"
  /\ scriptLoaded
  /\ initBody(t, [r \in regionsIn(firstBatch(dataCentersData)) |-> "sprite"])
  /\ UNCHANGED <<props, closure, widthState, dataCentersData, contextLostCount,
                 isInitialized, cleanupPending, scriptLoaded, apiResponse, loaderVars>>
  /\ UNCHANGED legacyVars
  /\ UNCHANGED <<popupNode, hostCalls, popupPlace, interactionOff>>

\* a finished createSprites call that made a marker of every region
populated(earth, centers) ==
  LET t == startSprites(NoTask, earth, centers)
      one == [i \in 1..Len(t.regions) |-> 1]
  IN [t EXCEPT !.idx = Len(t.regions), !.tries = one, !.markers = one, !.calls = one]

\* The popup and the marker handlers: the engine is up with a marker for every
\* region of the cached records; the host rendered with any flags, and either
\* rendered again while the script was loading (the cleanup has run) or not.
\* The factory succeeds when recovery makes the markers anew (createSprites has
\* SpecPopulate for its failures)
InitPopup ==
  /\ props \in Breakpoints
  /\ closure = props
  /\ zoomState = [deriveBounds(props) EXCEPT !.current = initialZoom(closure)]
  /\ widthState = [current |-> deriveWidth(props), min |-> widthMin, max |-> widthMax,
                   multiplier |-> widthMultiplier]
  /\ earthInstanceRef = 1
  /\ engines = << "live" >>
  /\ dataCentersData = ScenarioRecords
  /\ spritesCache = [i \in 1..Len(regionKeys(ScenarioRecords)) |->
                       spriteOf(ScenarioRecords, regionKeys(ScenarioRecords)[i], 1)]
  /\ contextLostCount = 0
  /\ popupFunctionsRef = TRUE
  /\ isInitialized = TRUE
  /\ cleanupPending \in BOOLEAN
  /\ scriptLoaded = TRUE
  /\ loadPromise = 1
  /\ scripts = << "loaded" >>
  /\ apiResponse = ScenarioRecords
  /\ tasks = << populated(1, ScenarioRecords) >>
  /\ isRecovering = FALSE
  /\ webglLostRef = FALSE
  /\ pendingSpritesRef = <<>>
  /\ eventsWired = FALSE
  /\ popups = << NoPopup >>
  /\ popupNode = NoPopupNode
  /\ hostCalls = {}
  /\ popupPlace = NoPlace
  /\ interactionOff = {}
  /\ dom = OneOfEach

NextPopup ==
  \/ \E i \in 1..Len(spritesCache) : handleMouseOver(i)
  \/ \E i \in 1..Len(spritesCache) : handleMouseOut(i)
  \/ \E i \in 1..Len(spritesCache) : handleClick(i)
  \/ PopupMouseEnter
  \/ PopupMouseLeave
  \/ ContainerMouseLeave
  \/ DocMouseMove
  \/ \E g \in 1..Len(popups) : HideTimer(g)
  \/ \E index \in 0..(MaxRegions - 1) : ToggleClick(index)
  \/ \E f \in Breakpoints : SetFlags(f)
  \/ \E e \in 1..Len(engines) : ContextLost(e)
  \/ \E t \in 1..Len(tasks) : RecoverTimer(t)
  \/ \E t \in 1..Len(tasks) : RecoverWaitOk(t)

SpecPopup == InitPopup /\ [][NextPopup]_vars

(***************************************************************************)
(* Popup placement: calculateSmartPopupPosition and positionPopup           *)
(* (lines 1390-1433 and 1503-1510); pixels are integers                     *)
(***************************************************************************)
popupWidth == 380
popupHeight == 500
margin == 20

\* the placement without its closing clamp
calculateSmartPopupPosition_noClamp(mouseX, mouseY, earthBounds) ==
  LET spaceRight == earthBounds.right - mouseX
      spaceLeft == mouseX - earthBounds.left
      spaceBelow == earthBounds.bottom - mouseY
      spaceAbove == mouseY - earthBounds.top
  IN [left |-> IF spaceRight >= popupWidth + margin THEN mouseX + margin
               ELSE IF spaceLeft >= popupWidth + margin THEN mouseX - popupWidth - margin
               ELSE Max(earthBounds.left + margin,
                        Min(mouseX - popupWidth \div 2,
                            earthBounds.right - popupWidth - margin)),
      top |-> IF spaceBelow >= popupHeight + margin THEN mouseY + margin
              ELSE IF spaceAbove >= popupHeight + margin THEN mouseY - popupHeight - margin
              ELSE IF spaceBelow > spaceAbove
                   THEN Max(mouseY - popupHeight + spaceBelow - margin,
                            earthBounds.top + margin)
                   ELSE Min(mouseY - margin, earthBounds.bottom - popupHeight - margin)]

calculateSmartPopupPosition(mouseX, mouseY, earthBounds) ==
  LET spaceRight == earthBounds.right - mouseX
      spaceLeft == mouseX - earthBounds.left
      spaceBelow == earthBounds.bottom - mouseY
      spaceAbove == mouseY - earthBounds.top
      left == IF spaceRight >= popupWidth + margin THEN mouseX + margin
              ELSE IF spaceLeft >= popupWidth + margin THEN mouseX - popupWidth - margin
              ELSE Max(earthBounds.left + margin,
                       Min(mouseX - popupWidth \div 2,
                           earthBounds.right - popupWidth - margin))
      top == IF spaceBelow >= popupHeight + margin THEN mouseY + margin
             ELSE IF spaceAbove >= popupHeight + margin THEN mouseY - popupHeight - margin
             ELSE IF spaceBelow > spaceAbove
                  THEN Max(mouseY - popupHeight + spaceBelow - margin,
                           earthBounds.top + margin)
                  ELSE Min(mouseY - margin, earthBounds.bottom - popupHeight - margin)
  IN [left |-> Max(earthBounds.left + margin,
                   Min(left, earthBounds.right - popupWidth - margin)),
      top |-> Max(earthBounds.top + margin,
                  Min(top, earthBounds.bottom - popupHeight - margin))]

\* rectangles getBoundingClientRect() may answer for the container: narrower than,
\* as wide as and wider than the popup with its two margins, and likewise in height
Rects ==
  {[left |-> l, top |-> t, right |-> l + w, bottom |-> t + h] :
     l \in {0, 100}, t \in {0, 40}, w \in {300, 420, 1000}, h \in {400, 540, 900}}

\* pointer coordinates inside the rectangles and up to 10 pixels outside
PointerXs == {-10, 0, 210, 410, 700, 990, 1110}
PointerYs == {-10, 0, 270, 530, 890, 950}

\* the document's mousemove listener records the pointer
MouseMove(x, y) ==
  /\ popupPlace' = [popupPlace EXCEPT !.mouseX = x, !.mouseY = y]
  /\ UNCHANGED <<popups, popupNode, hostCalls, interactionOff, dom>>
  /\ UNCHANGED <<props, closure, zoomState, widthState, earthInstanceRef, engines,
                 spritesCache, dataCentersData, contextLostCount, popupFunctionsRef,
                 isInitialized, cleanupPending, scriptLoaded, apiResponse, loaderVars, tasks>>
  /\ UNCHANGED legacyVars

\* positionPopup(): the container's rectangle is b
positionPopup(b) ==
  /\ LET at == calculateSmartPopupPosition(popupPlace.mouseX, popupPlace.mouseY, b) IN
     popupPlace' = [popupPlace EXCEPT !.left = at.left, !.top = at.top,
                                      !.positioned = TRUE, !.earthBounds = b]
  /\ UNCHANGED <<popups, popupNode, hostCalls, interactionOff, dom>>
  /\ UNCHANGED <<props, closure, zoomState, widthState, earthInstanceRef, engines,
                 spritesCache, dataCentersData, contextLostCount, popupFunctionsRef,
                 isInitialized, cleanupPending, scriptLoaded, apiResponse, loaderVars, tasks>>
  /\ UNCHANGED legacyVars

\* Placement alone: the popup closure exists; the pointer moves and the popup is
\* placed, in any order, for any rectangle of the container
NextPlace ==
  \/ \E x \in PointerXs, y \in PointerYs : MouseMove(x, y)
  \/ \E b \in Rects : positionPopup(b)

InitPlace == InitPopup /\ isBigScreen(props) /\ ~cleanupPending

SpecPlace == InitPlace /\ [][NextPlace]_vars

(***************************************************************************)
(* Recovery with records: losses of the context while the first fetch is   *)
(* pending, or after the records were cached and some recoveries were made *)
(***************************************************************************)
\* what the data API answers in the runs of recovery: one data center with nodes
RecoverRecords == << DC("dc3", "Asia, JP", Num(35), Num(139), 4) >>

\* either initializeEarth awaits the data API for the first time, or the records
\* are cached, every region has its marker and 0 to maxRecoveryAttempts
\* recoveries have been counted
InitRecover ==
  /\ props = [isMobile |-> FALSE, isTablet |-> FALSE, isMedium |-> FALSE]
  /\ closure = props
  /\ zoomState = [deriveBounds(props) EXCEPT !.current = initialZoom(closure)]
  /\ widthState = [current |-> deriveWidth(props), min |-> widthMin, max |-> widthMax,
                   multiplier |-> widthMultiplier]
  /\ earthInstanceRef = 1
  /\ engines = << "live" >>
  /\ apiResponse = RecoverRecords
  /\ \/ /\ dataCentersData = <<>>
        /\ spritesCache = <<>>
        /\ contextLostCount = 0
        /\ tasks = << [NoTask EXCEPT !.pc = "fetch", !.earth = 1] >>
     \/ /\ dataCentersData = RecoverRecords
        /\ spritesCache = [i \in 1..Len(regionKeys(RecoverRecords)) |->
                             spriteOf(RecoverRecords, regionKeys(RecoverRecords)[i], 1)]
        /\ contextLostCount \in 0..maxRecoveryAttempts
        /\ tasks = <<>>
  /\ popupFunctionsRef = TRUE
  /\ isInitialized = TRUE
  /\ cleanupPending \in BOOLEAN
  /\ scriptLoaded = TRUE
  /\ loadPromise = 1
  /\ scripts = << "loaded" >>
  /\ isRecovering = FALSE
  /\ webglLostRef = FALSE
  /\ pendingSpritesRef = <<>>
  /\ eventsWired = FALSE
  /\ popups = << NoPopup >>
  /\ popupNode = NoPopupNode
  /\ hostCalls = {}
  /\ popupPlace = NoPlace
  /\ interactionOff = {}
  /\ dom = OneOfEach

NextRecover ==
  \/ \E e \in 1..Len(engines) : ContextLost(e)
  \/ \E t \in 1..Len(tasks) : RecoverTimer(t)
  \/ \E t \in 1..Len(tasks) : RecoverWait(t)
  \/ \E t \in 1..Len(tasks) : FetchResolved(t)
  \/ \E t \in 1..Len(tasks) : FetchRejected(t)
  \/ \E t \in 1..Len(tasks) : RetryTimer(t)
  \/ HostRerender

SpecRecover == InitRecover /\ [][NextRecover]_vars

(***************************************************************************)
(* Recovery in the iteration at lines 2324-3346, with records cached       *)
(***************************************************************************)
\* the records are cached, every region has its marker on the first engine, and
\* 0 to maxRecoveryAttempts recoveries have been counted
InitRecover_C ==
  /\ props = [isMobile |-> FALSE, isTablet |-> FALSE, isMedium |-> FALSE]
  /\ closure = props
  /\ zoomState = [deriveBounds_C(props) EXCEPT !.current = initialZoom_C(closure)]
  /\ widthState = [current |-> widthMin, min |-> widthMin, max |-> widthMax,
                   multiplier |-> widthMultiplier]
  /\ earthInstanceRef = 1
  /\ engines = << "live" >>
  /\ apiResponse = ScenarioRecords
  /\ dataCentersData = ScenarioRecords
  /\ spritesCache = [i \in 1..Len(regionKeys(ScenarioRecords)) |->
                       spriteOf(ScenarioRecords, regionKeys(ScenarioRecords)[i], 1)]
  /\ contextLostCount \in 0..maxRecoveryAttempts
  /\ tasks = <<>>
  /\ popupFunctionsRef = TRUE
  /\ isInitialized = TRUE
  /\ cleanupPending = TRUE
  /\ scriptLoaded = TRUE
  /\ loadPromise = 0
  /\ scripts = << "loaded" >>
  /\ isRecovering = FALSE
  /\ webglLostRef = FALSE
  /\ pendingSpritesRef = <<>>
  /\ eventsWired = FALSE
  /\ popups = << NoPopup >>
  /\ popupNode = NoPopupNode
  /\ hostCalls = {}
  /\ popupPlace = NoPlace
  /\ interactionOff = {}
  /\ dom = OneOfEach

NextRecover_C ==
  \/ zoomIn_C
  \/ zoomOut_C
  \/ resetZoom_C
  \/ \E e \in 1..Len(engines) : ContextLost_C(e)
  \/ \E e \in 1..Len(engines) : ContextRestored_C(e)
  \/ \E t \in 1..Len(tasks) : RecoverTimer_C(t)
  \/ \E t \in 1..Len(tasks) : RecoverWait_C(t)
  \/ \E t \in 1..Len(tasks) : InitZoomTimer_C(t)

\* every timer that was set fires: the 100 ms timer of the restored handler, the
\* second recoverWebGLContext waits, the 50 ms timer of initializeEarth
FairRecover_C ==
  /\ WF_vars(\E t \in 1..Len(tasks) : RecoverTimer_C(t))
  /\ WF_vars(\E t \in 1..Len(tasks) : RecoverWait_C(t))
  /\ WF_vars(\E t \in 1..Len(tasks) : InitZoomTimer_C(t))

SpecRecover_C == InitRecover_C /\ [][NextRecover_C]_vars /\ FairRecover_C

(***************************************************************************)
(* loadEarthScript: the loader shared by every controller of the page      *)
(***************************************************************************)
\* script elements the page comes to hold, and calls of the loader
MaxScripts == 3
MaxCallers == 3

\* the callers of a promise take a settlement: those awaiting script s move to pc
settle(s, pc) ==
  [t \in 1..Len(tasks) |->
     IF tasks[t].pc = "load" /\ tasks[t].script = s
     THEN [tasks[t] EXCEPT !.pc = pc] ELSE tasks[t]]

loaderFrame ==
  UNCHANGED <<props, closure, zoomState, widthState, earthInstanceRef, engines,
              spritesCache, dataCentersData, contextLostCount, popupFunctionsRef,
              isInitialized, cleanupPending, apiResponse, legacyVars, uiVars>>

\* an initializeEarth (of the first mount, of a later mount, of a recovery) calls
\* loadEarthScript and awaits what it returns
CallLoad ==
  /\ Len(tasks) < MaxCallers
  /\ LET r == loadEarthScript(scriptLoaded, loadPromise, scripts) IN
     /\ Len(r.scripts) <= MaxScripts
     /\ loadPromise' = r.loadPromise
     /\ scripts' = r.scripts
     /\ tasks' = Append(tasks, [NoTask EXCEPT
                                  !.pc = IF r.awaits = 0 THEN "loaded" ELSE "load",
                                  !.script = r.awaits])
  /\ UNCHANGED scriptLoaded
  /\ loaderFrame

CallLoad_C ==
  /\ Len(tasks) < MaxCallers
  /\ LET r == loadEarthScript_C(scriptLoaded, loadPromise, scripts) IN
     /\ Len(r.scripts) <= MaxScripts
     /\ loadPromise' = r.loadPromise
     /\ scripts' = r.scripts
     /\ tasks' = Append(tasks, [NoTask EXCEPT
                                  !.pc = IF r.awaits = 0 THEN "loaded" ELSE "load",
                                  !.script = r.awaits])
  /\ UNCHANGED scriptLoaded
  /\ loaderFrame

\* script.onload: the script has defined window.Earth; the promise resolves
ScriptOnload(s) ==
  /\ s \in 1..Len(scripts)
  /\ scripts[s] = "loading"
  /\ scripts' = [scripts EXCEPT ![s] = "loaded"]
  /\ scriptLoaded' = TRUE
  /\ tasks' = settle(s, "loaded")
  /\ UNCHANGED loadPromise
  /\ loaderFrame

\* script.onerror: the promise rejects, then loadPromise is cleared
ScriptOnerror(s) ==
  /\ s \in 1..Len(scripts)
  /\ scripts[s] = "loading"
  /\ scripts' = [scripts EXCEPT ![s] = "failed"]
  /\ tasks' = settle(s, "rejected")
  /\ loadPromise' = scriptOnerror(loadPromise)
  /\ UNCHANGED scriptLoaded
  /\ loaderFrame

ScriptOnerror_C(s) ==
  /\ s \in 1..Len(scripts)
  /\ scripts[s] = "loading"
  /\ scripts' = [scripts EXCEPT ![s] = "failed"]
  /\ tasks' = settle(s, "rejected")
  /\ UNCHANGED <<loadPromise, scriptLoaded>>
  /\ loaderFrame

\* the page before any controller has called the loader
InitLoader ==
  /\ props \in Flags
  /\ closure = props
  /\ zoomState = deriveBounds(props)
  /\ widthState = [current |-> deriveWidth(props), min |-> widthMin, max |-> widthMax,
                   multiplier |-> widthMultiplier]
  /\ earthInstanceRef = 0
  /\ engines = <<>>
  /\ spritesCache = <<>>
  /\ dataCentersData = <<>>
  /\ contextLostCount = 0
  /\ popupFunctionsRef = FALSE
  /\ isInitialized = FALSE
  /\ cleanupPending = FALSE
  /\ scriptLoaded = FALSE
  /\ loadPromise = 0
  /\ scripts = <<>>
  /\ apiResponse = <<>>
  /\ tasks = <<>>
  /\ isRecovering = FALSE
  /\ webglLostRef = FALSE
  /\ pendingSpritesRef = <<>>
  /\ eventsWired = FALSE
  /\ popups = <<>>
  /\ popupNode = NoPopupNode
  /\ hostCalls = {}
  /\ popupPlace = NoPlace
  /\ interactionOff = {}
  /\ dom = NoDom

NextLoader ==
  \/ CallLoad
  \/ \E s \in 1..Len(scripts) : ScriptOnload(s)
  \/ \E s \in 1..Len(scripts) : ScriptOnerror(s)

SpecLoader == InitLoader /\ [][NextLoader]_vars

NextLoader_C ==
  \/ CallLoad_C
  \/ \E s \in 1..Len(scripts) : ScriptOnload(s)
  \/ \E s \in 1..Len(scripts) : ScriptOnerror_C(s)

SpecLoader_C == InitLoader /\ [][NextLoader_C]_vars

(***************************************************************************)
(* Claims: ViewportStateStore                                              *)
(***************************************************************************)
\* C1: in every reachable state of the controller the zoom level lies within the
\* bounds derived from the current breakpoint flags: min <= current <= max.
C1_ZoomWithinBounds ==
  /\ zoomState.min <= zoomState.current
  /\ zoomState.current <= zoomState.max

\* C2: for the flags the globe is initialised for (each of the 8 combinations), the
\* bounds derived for those flags contain the initial level initializeEarth applies.
C2_InitialWithinBounds ==
  /\ deriveBounds(closure).min <= initialZoom(closure)
  /\ initialZoom(closure) <= deriveBounds(closure).max

\* C3: a zoomIn step never leaves current above max, a zoomOut step never leaves it
\* below min, and a step taken at the bound changes neither the zoom state nor the
\* container width.
C3_ZoomClampsAtBounds ==
  [][ /\ zoomIn =>
          /\ zoomState'.current <= zoomState.max
          /\ (zoomState.current = zoomState.max => UNCHANGED <<zoomState, widthState>>)
      /\ zoomOut =>
          /\ zoomState'.current >= zoomState.min
          /\ (zoomState.current = zoomState.min => UNCHANGED <<zoomState, widthState>>)
    ]_vars

\* C3 witness: on a live engine zoomIn has taken the level from its initial value up
\* to max, and the coupled width to its maximum
C3_Witness ==
  /\ earthInstanceRef /= 0
  /\ zoomState.current = zoomState.max
  /\ zoomState.max > zoomState.min
  /\ widthState.current = widthState.max

(***************************************************************************)
(* Claims: MarkerRegistry                                                  *)
(***************************************************************************)
\* the createSprites calls that have started
populateCalls == {t \in 1..Len(tasks) : tasks[t].started}
regionIndexes(t) == 1..Len(tasks[t].regions)
markersIn(r) == Cardinality({i \in 1..Len(spritesCache) : spritesCache[i].region = r})

\* C5: within one createSprites call no region is attempted more than 1 + maxRetries
\* (= 4) times or abandoned more than once; an abandoned region has had exactly its 4
\* attempts, so it is never attempted after being abandoned; and when the call is over
\* a region whose attempts all failed has been attempted 4 times and abandoned once.
C5_BoundedAttemptsThenAbandoned ==
  \A t \in populateCalls : \A k \in regionIndexes(t) :
    /\ tasks[t].tries[k] <= 1 + maxRetries
    /\ 1 + maxRetries = 4
    /\ tasks[t].abandoned[k] <= 1
    /\ tasks[t].abandoned[k] = 1 => tasks[t].tries[k] = 1 + maxRetries
    /\ (tasks[t].pc = "done" /\ tasks[t].markers[k] = 0) =>
          (tasks[t].tries[k] = 1 + maxRetries /\ tasks[t].abandoned[k] = 1)

\* C5 witness: a finished call in which the factory was called 4 times for a region,
\* failed each time, and the region was abandoned
C5_Witness ==
  \E t \in populateCalls : \E k \in regionIndexes(t) :
    /\ tasks[t].pc = "done"
    /\ tasks[t].calls[k] = 4
    /\ tasks[t].markers[k] = 0
    /\ tasks[t].abandoned[k] = 1

\* C6: a createSprites call creates at most one marker per region, a region that has
\* its marker is never attempted again, and a finished call in which the factory never
\* failed has exactly one marker per valid region: 2 for the scenario's three records.
C6_AtMostOneMarkerPerRegion ==
  /\ [](\A t \in populateCalls :
          /\ \A k \in regionIndexes(t) :
               /\ tasks[t].markers[k] <= 1
               /\ markersIn(tasks[t].regions[k]) = tasks[t].markers[k]
               /\ (tasks[t].pc = "done" /\ tasks[t].allSucceeded) =>
                    (tasks[t].markers[k] = 1 <=> regionIsValid(tasks[t].centers, tasks[t].regions[k]))
          /\ (tasks[t].pc = "done" /\ tasks[t].allSucceeded
                 /\ tasks[t].centers = ScenarioRecords) => Len(spritesCache) = 2)
  /\ [][\A t \in populateCalls : \A k \in regionIndexes(t) :
          tasks[t].markers[k] = 1 => tasks'[t].tries[k] = tasks[t].tries[k]]_vars

\* C6 witness: the scenario's call has finished with its 2 markers, one of them made
\* in a retry round after a failure, the other in the initial pass
C6_Witness ==
  \E t \in populateCalls :
    /\ tasks[t].pc = "done"
    /\ tasks[t].centers = ScenarioRecords
    /\ tasks[t].markers = <<1, 1>>
    /\ tasks[t].tries = <<3, 1>>
    /\ Len(spritesCache) = 2

\* a coordinate that is a finite number
finiteNumber(x) == x.type = "number" /\ x.kind = "finite"
badRecord(dc) == ~finiteNumber(dc.latitude) \/ ~finiteNumber(dc.longitude)

\* C7: no marker is ever made from a record whose latitude or longitude is not a
\* finite number, a region whose first record is such a record has no marker, and
\* no exception leaves createSprites.
C7_NonFiniteRecordsGetNoMarker ==
  /\ \A i \in 1..Len(spritesCache) : ~badRecord(spritesCache[i].first)
  /\ \A t \in populateCalls :
       /\ ~tasks[t].threw
       /\ \A k \in regionIndexes(t) :
            badRecord(regionMap(tasks[t].centers, tasks[t].regions[k])[1]) =>
              (tasks[t].markers[k] = 0 /\ tasks[t].calls[k] = 0)

\* C7 witness: a finished call whose records held a first-of-region record with a
\* coordinate that is not finite; that region has no marker, another one has
C7_Witness ==
  \E t \in populateCalls :
    /\ tasks[t].pc = "done"
    /\ \E k \in regionIndexes(t) :
         /\ badRecord(regionMap(tasks[t].centers, tasks[t].regions[k])[1])
         /\ tasks[t].markers[k] = 0
    /\ \E k \in regionIndexes(t) : tasks[t].markers[k] = 1

\* coordinates within the ranges of latitude and longitude
inRange(dc) ==
  /\ finiteNumber(dc.latitude) /\ -90 <= dc.latitude.v /\ dc.latitude.v <= 90
  /\ finiteNumber(dc.longitude) /\ -180 <= dc.longitude.v /\ dc.longitude.v <= 180

\* C8: no marker is ever made from a record whose latitude is outside [-90, 90] or
\* whose longitude is outside [-180, 180].
C8_OutOfRangeRecordsSkipped ==
  \A i \in 1..Len(spritesCache) : inRange(spritesCache[i].first)

\* C4: in the iteration at lines 2324-3346 too, a resetZoom on a live engine leaves
\* current at the min of the bounds derived for the current breakpoint flags.
C4_ResetRestoresMin ==
  [][resetZoom_C => zoomState'.current = zoomState.min]_vars

\* the createSpriteBatch runs of the iteration with the pending queue
inPending(t, k) ==
  \E i \in 1..Len(pendingSpritesRef) :
    pendingSpritesRef[i] = [region |-> tasks[t].regions[k], call |-> t]

\* C9: when the replay of pending regions stops on a region whose creation failed,
\* no other region is left waiting that has never been attempted: a failing region
\* does not keep the others from being attempted.
C9_FailureNeverHoldsUpOthers ==
  \A r \in 1..Len(tasks) :
    (tasks[r].kind = "replay" /\ tasks[r].pc = "done" /\ tasks[r].haltedOn /= "") =>
      \A t \in populateCalls : \A k \in regionIndexes(t) :
        (inPending(t, k) /\ tasks[t].regions[k] /= tasks[r].haltedOn) =>
          tasks[t].calls[k] > 0

\* C10: a valid region that has been through the initial pass only, and has no
\* marker, is in the pending queue: a failed attempt is never dropped.
C10_InitialFailuresAreQueued ==
  \A t \in populateCalls : \A k \in regionIndexes(t) :
    (/\ tasks[t].tries[k] = 1
     /\ regionIsValid(tasks[t].centers, tasks[t].regions[k])
     /\ tasks[t].markers[k] = 0) => inPending(t, k)

\* the entries of a call's retry queue: those waiting and those taken for a round
queued(t) ==
  {tasks[t].failedQueue[i] : i \in 1..Len(tasks[t].failedQueue)}
    \cup {tasks[t].currentFailed[i] : i \in 1..Len(tasks[t].currentFailed)}

\* C11: every entry of the retry queue has 1 <= attempts <= maxRetries (3), and a
\* region that was given up is in the queue no more and has had its last attempt.
C11_QueuedAttemptsBounded ==
  \A t \in populateCalls :
    /\ \A e \in queued(t) : 1 <= e.attempts /\ e.attempts <= maxRetries
    /\ maxRetries = 3
    /\ \A k \in regionIndexes(t) :
         tasks[t].abandoned[k] >= 1 =>
           /\ \A e \in queued(t) : e.region /= tasks[t].regions[k]
           /\ tasks[t].tries[k] = 1 + maxRetries

\* C11 witness: the last retry round is about to run with an entry at attempts = 3,
\* the factory having failed on each of its three attempts
C11_Witness ==
  \E t \in populateCalls :
    /\ tasks[t].pc = "retryWait"
    /\ \E i \in 1..Len(tasks[t].currentFailed) :
         /\ tasks[t].currentFailed[i].attempts = maxRetries
         /\ tasks[t].calls[indexOf(tasks[t].regions, tasks[t].currentFailed[i].region)] = 3

(***************************************************************************)
(* Claims: PopupController                                                 *)
(***************************************************************************)
\* C12: a marker click invokes onMobileDataCenterClick only on a touch-class
\* device: no call is made while none of isMobile, isTablet, isMedium is set.
C12_CallbackOnlyOnTouchClass ==
  \A c \in hostCalls : ~isBigScreen(c.flags)

\* the step is the mouseover of marker i, heard by a closure that shows popups
showStep(i) ==
  /\ i \in hoverable
  /\ ~(closure.isMobile \/ closure.isTablet)
  /\ handleMouseOver(i)

hideStep(g) ==
  \/ \E i \in hoverable :
       /\ spritesCache[i].earth = g
       /\ ~(closure.isMobile \/ closure.isTablet)
       /\ handleMouseOut(i)
  \/ PopupMouseLeave
  \/ /\ popups[g].isVisible /\ ~popups[g].isHoveringPopup
     /\ ContainerMouseLeave \/ DocMouseMove

C15_ToggleOnlyMovesExpandedIndex ==
  [][\A index \in 0..(MaxRegions - 1) :
       ToggleClick(index) =>
         LET g == popupNode.renderedBy IN
         /\ index = popups[g].currentExpandedIndex => UNCHANGED <<popups, popupNode>>
         /\ index /= popups[g].currentExpandedIndex =>
              /\ popups'[g].currentExpandedIndex = index
              /\ popupNode'.expanded = index
              /\ popupNode'.group = popupNode.group
              /\ popupNode'.display = popupNode.display
         /\ popups'[g].currentGroupData = popups[g].currentGroupData
         /\ popups'[g].isVisible = popups[g].isVisible
         /\ popups'[g].hideTimer = popups[g].hideTimer
         /\ \A h \in 1..Len(popups) : h /= g => popups'[h] = popups[h]
         /\ UNCHANGED <<spritesCache, engines, earthInstanceRef, tasks>>]_vars

\* the second record of "Europe, DE" is the expanded one while a hide is pending
C15_Witness ==
  \E g \in 1..Len(popups) :
    /\ popupNode.display = "block"
    /\ popupNode.renderedBy = g
    /\ Len(popupNode.group) = 2
    /\ popupNode.expanded = 1
    /\ popups[g].currentExpandedIndex = 1
    /\ popups[g].isVisible
    /\ popups[g].hideTimer = 1

\* the rectangle has room for the popup and its two margins, across and down
roomAcross(b) == b.right - b.left >= popupWidth + 2 * margin
roomDown(b) == b.bottom - b.top >= popupHeight + 2 * margin

\* C16 as stated: whatever the container's rectangle and the pointer, the place
\* positionPopup sets has left within [bounds.left + margin, bounds.right - width -
\* margin] and top within [bounds.top + margin, bounds.bottom - height - margin].
C16_PlaceWithinBounds ==
  popupPlace.positioned =>
    LET b == popupPlace.earthBounds IN
    /\ b.left + margin <= popupPlace.left
    /\ popupPlace.left <= b.right - popupWidth - margin
    /\ b.top + margin <= popupPlace.top
    /\ popupPlace.top <= b.bottom - popupHeight - margin

\* C16, amended: on each axis the place lies within the margins whenever the
\* rectangle has room for the popup and both margins; when it has not, the place is
\* the rectangle's left (top) edge plus the margin.
C16_PlaceWithinBoundsWhenRoom ==
  popupPlace.positioned =>
    LET b == popupPlace.earthBounds IN
    /\ roomAcross(b) => /\ b.left + margin <= popupPlace.left
                        /\ popupPlace.left <= b.right - popupWidth - margin
    /\ ~roomAcross(b) => popupPlace.left = b.left + margin
    /\ roomDown(b) => /\ b.top + margin <= popupPlace.top
                      /\ popupPlace.top <= b.bottom - popupHeight - margin
    /\ ~roomDown(b) => popupPlace.top = b.top + margin

\* the popup was placed in a rectangle with room, for a pointer 10 pixels left of
\* it and 10 pixels above it: the closing clamp set both coordinates
C16_Witness ==
  /\ popupPlace.positioned
  /\ roomAcross(popupPlace.earthBounds) /\ roomDown(popupPlace.earthBounds)
  /\ popupPlace.mouseX = popupPlace.earthBounds.left - 10
  /\ popupPlace.mouseY = popupPlace.earthBounds.top - 10
  /\ popupPlace.left = popupPlace.earthBounds.left + margin
  /\ popupPlace.top = popupPlace.earthBounds.top + margin

(***************************************************************************)
(* Claims: ContextRecoveryManager                                          *)
(***************************************************************************)
\* the step is recoverWebGLContext of task t, from its entry
recoverStep(t) == tasks[t].pc = "recoverTimer" /\ RecoverTimer(t)

C18_ThirdLossDoesNotReinitialize ==
  [][\A t \in 1..Len(tasks) :
       (recoverStep(t) /\ contextLostCount' = maxRecoveryAttempts
          /\ contextLostCount < maxRecoveryAttempts) =>
         /\ UNCHANGED <<engines, earthInstanceRef, spritesCache>>
         /\ tasks'[t].pc = "done"]_vars

\* C19: contextLostCount is never decremented or reset.
C19_LostCountNeverReset ==
  [][contextLostCount' >= contextLostCount]_vars

\* the step is the initializeEarth that recovery task t runs after its delay
reinitStep(t) == tasks[t].pc = "recoverWait" /\ RecoverWait(t)

inRecovery(pc) == pc \in {"recoverTimer", "recoverWait"}

onlyViewportMoves ==
  UNCHANGED <<props, closure, earthInstanceRef, engines, spritesCache,
              dataCentersData, contextLostCount, popupFunctionsRef, isInitialized,
              cleanupPending, scriptLoaded, apiResponse, loaderVars, tasks, legacyVars, uiVars>>

\* C21: a zoom call (zoomIn, zoomOut, resetZoom) made while isRecovering is set, or
\* while recovery has torn the engine handle down, leaves zoomState.current as it
\* was and reaches no engine: the step changes nothing at all.
C21_ZoomIsNoOpWhileRecovering ==
  [][ (isRecovering \/ earthInstanceRef = 0) /\ onlyViewportMoves
        => UNCHANGED <<zoomState, widthState>> ]_vars

\* a recovery is between its teardown and its reinitialisation, after zoom calls
\* had moved the level off the one the breakpoint sync set
C21_Witness ==
  /\ isRecovering
  /\ earthInstanceRef = 0
  /\ \E t \in 1..Len(tasks) : tasks[t].pc = "recoverWait"
  /\ zoomState.current /= deriveBounds_C(props).current
  /\ zoomState.current > zoomState.min
  /\ zoomState.current < zoomState.max

\* Lost: the canvas has signalled webglcontextlost and recoverWebGLContext has not
\* run yet
lostSignalled == \E t \in 1..Len(tasks) : tasks[t].pc = "recoverTimer"

\* PermanentlyFailed: recoverWebGLContext refuses every further loss
permanentlyFailed == maxAttemptsReached(contextLostCount)

\* C22: zoomIn, zoomOut and resetZoom do nothing while the controller is Lost
\* (loss signalled, recovery not started) or PermanentlyFailed (the count of losses
\* is at the cap): zoomState.current stays and the stale engine is left alone.
C22_ZoomIsNoOpUnlessStable ==
  [][ (lostSignalled \/ permanentlyFailed) /\ onlyViewportMoves
        => UNCHANGED <<zoomState, widthState>> ]_vars


(***************************************************************************)
(* Claims: the script loader                                               *)
(***************************************************************************)
\* the script elements that are loading or have loaded
liveScripts == {s \in 1..Len(scripts) : scripts[s] \in {"loading", "loaded"}}

\* C23: the engine script is injected at most once while a load is in flight or
\* has succeeded: callers of loadEarthScript that overlap share the one promise, so
\* the page never holds two script elements that are loading or loaded.
C23_SingleInjection == Cardinality(liveScripts) <= 1

\* C24: when the script fails to load, every caller awaiting the shared promise is
\* rejected and loadPromise is cleared in the same step, so loadPromise never
\* holds a failed promise and the next call injects a fresh script element.
C24_FailureClearsPromise ==
  /\ [](loadPromise /= 0 => scripts[loadPromise] /= "failed")
  /\ [][ \A s \in 1..Len(scripts) :
            scripts[s] = "loading" /\ scripts'[s] = "failed" =>
              /\ loadPromise' = 0
              /\ \A t \in 1..Len(tasks) :
                    tasks[t].pc = "load" /\ tasks[t].script = s
                      => tasks'[t].pc = "rejected"
              /\ loadEarthScript(scriptLoaded', loadPromise', scripts').awaits
                   = Len(scripts) + 1 ]_vars

\* a load failed and rejected its caller, and a later call injected a second script
\* element, which loaded
C24_Witness ==
  /\ \E s1, s2 \in 1..Len(scripts) :
       s1 < s2 /\ scripts[s1] = "failed" /\ scripts[s2] = "loaded"
  /\ \E t1, t2 \in 1..Len(tasks) :
       /\ tasks[t1].pc = "rejected"
       /\ tasks[t2].pc = "loaded" /\ tasks[t2].script /= 0


(***************************************************************************)
(* Claims: the initialization sequence                                     *)
(***************************************************************************)
\* C25: the failure of a step of initializeEarth (script load, data fetch) aborts
\* the steps after it and reaches the caller as a rejected promise.
C25_FailureRejectsInitialize ==
  \A t \in 1..Len(tasks) :
    tasks[t].failedAt /= "" => tasks[t].pc = "done" /\ tasks[t].rejected


(***************************************************************************)
(* Claims: recovery repopulates                                            *)
(***************************************************************************)
\* a recovery is due: recoverWebGLContext is scheduled, the count is below the cap,
\* records are cached and no other recovery is running
recoveryDue ==
  /\ \E t \in 1..Len(tasks) : tasks[t].pc = "recoverTimer"
  /\ ~maxAttemptsReached(contextLostCount)
  /\ Len(dataCentersData) > 0
  /\ ~isRecovering

\* the engine held is live and every valid region of the cached records has a
\* marker on it
repopulated ==
  /\ earthInstanceRef /= 0
  /\ engines[earthInstanceRef] = "live"
  /\ ~isRecovering
  /\ \A i \in 1..Len(regionKeys(dataCentersData)) :
       regionIsValid(dataCentersData, regionKeys(dataCentersData)[i]) =>
         \E k \in 1..Len(spritesCache) :
           /\ spritesCache[k].region = regionKeys(dataCentersData)[i]
           /\ spritesCache[k].earth = earthInstanceRef

\* C26: after a context loss with the count below the cap and records cached, the
\* controller eventually holds a new live engine on which every valid region of the
\* cached records has a marker.
C26_RecoveryRepopulates ==
  \A e \in 1..(MaxTasks + 1) :
    (recoveryDue /\ earthInstanceRef = e) ~> (repopulated /\ earthInstanceRef > e)


(***************************************************************************)
(* Claims: teardown                                                        *)
(***************************************************************************)
\* the cleanup of the mount effect has run
tornDown == isInitialized /\ ~cleanupPending

\* a delay that was pending elapses and its callback runs: the recovery timer, the
\* grace period of recovery, the delay between batches, the backoff of a retry
timerFires ==
  \E t \in 1..Len(tasks) :
    /\ tasks[t].pc \in {"recoverTimer", "recoverWait", "batchWait", "retryWait"}
    /\ tasks'[t].pc /= tasks[t].pc

\* C27: after teardown no timer callback changes the controller's state or reaches
\* an engine: the delays were cancelled, or their callbacks see that the controller
\* is gone and return.
C27_NoTimerActsAfterTeardown ==
  [][ tornDown /\ timerFires
        => UNCHANGED <<earthInstanceRef, engines, spritesCache, contextLostCount,
                       dataCentersData, popupFunctionsRef, zoomState, widthState,
                       popups, popupNode>> ]_vars

\* the listeners one call of setupPopupFunctionality binds on document and on
\* window: mousemove (two of them on a big screen) and resize
listenersPerSetup(f) == (IF isBigScreen(f) THEN 2 ELSE 1) + 1

\* the listeners on document and window that are bound: error and
\* unhandledrejection of the mount effect, and those of every call of
\* setupPopupFunctionality so far (popups keeps one closure per call; no listener
\* is ever removed)
liveListeners ==
  (IF isInitialized THEN 2 ELSE 0) + Len(popups) * listenersPerSetup(closure)

\* C28: teardown unbinds every listener the lifecycle registered, so after
\* teardown none is bound, and however many recoveries ran there are never more
\* bound than one mount and one initialization register.
C28_ListenersUnbound ==
  /\ tornDown => liveListeners = 0
  /\ liveListeners <= 2 + listenersPerSetup(closure)

\* C29: teardown resets every piece of the controller's state: when the cleanup of
\* the mount effect has run, the recovery counter is 0, the marker cache is empty,
\* the popup functions and the engine handle are null and the initialized flag is
\* cleared, so that the effect's next run initializes again.
C29_TeardownResetsEverything ==
  [][ cleanupPending /\ ~cleanupPending'
        => /\ contextLostCount' = 0
           /\ spritesCache' = <<>>
           /\ ~popupFunctionsRef'
           /\ earthInstanceRef' = 0
           /\ ~isInitialized' ]_vars

(***************************************************************************)
(* Claims: the recovery lock                                               *)
(***************************************************************************)
\* the initializations and recoveries that have started and not finished: past the
\* entry test of recoverWebGLContext, or inside initializeEarth
running ==
  {t \in 1..Len(tasks) :
     tasks[t].pc \in {"load", "fetch", "batchWait", "retryWait", "recoverWait"}}

\* C30: recovery holds a lock: at most one initialization or recovery is in
\* progress at any time; a context loss that arrives while one is in progress
\* starts no second one.
C30_OneInitializationAtATime == Cardinality(running) <= 1

(***************************************************************************)
(* Claims: markers and the engine they were made on                        *)
(***************************************************************************)
\* a recovery has emptied the marker set and initializeEarth has made its engine
recoveredEngine ==
  /\ earthInstanceRef > 1
  /\ engines[earthInstanceRef] = "live"
  /\ \E e \in 1..(earthInstanceRef - 1) : engines[e] = "destroyed"

\* the markers of the set that were made on another engine than the current one
staleMarkers ==
  {k \in 1..Len(spritesCache) : spritesCache[k].earth /= earthInstanceRef}

\* C31: after recovery has reset the marker set and created a new engine, every
\* marker of the live marker set was created on the current engine; a populate
\* call still in flight for the stale engine adds nothing to the set.
C31_MarkersOnCurrentEngine == recoveredEngine => staleMarkers = {}

(***************************************************************************)
(* Claims: the popup and the timers when the context is lost               *)
(***************************************************************************)
\* the step in which the webglcontextlost listener runs
lostHandled ==
  /\ Len(tasks') = Len(tasks) + 1
  /\ tasks'[Len(tasks')].kind = "recover"
  /\ tasks'[Len(tasks')].pc = "recoverTimer"

\* the delays of createSprites that are pending
batchTimersPending ==
  {t \in 1..Len(tasks) : tasks[t].pc \in {"batchWait", "retryWait"}}

\* C32: when the context-lost signal is handled the popup is Hidden, in the
\* document and in the popup controller's visible flag, and no hide timer and no
\* batch timer tied to the stale engine remains pending.
C32_LossHidesPopupAndCancelsTimers ==
  [][ lostHandled
        => /\ popupNode'.display = "none"
           /\ \A g \in 1..Len(popups') :
                ~popups'[g].isVisible /\ popups'[g].hideTimer = 0
           /\ batchTimersPending' = {} ]_vars

(***************************************************************************)
(* PopupController of the iteration at lines 2324-3346                     *)
(***************************************************************************)
\* disableEarthInteraction() of that iteration
disableEarthInteraction_C(off, earth, recovering) ==
  IF earth /= 0 /\ ~recovering THEN off \cup {earth} ELSE off

\* enableEarthInteraction() of that iteration
enableEarthInteraction_C(off, earth, recovering) ==
  IF earth /= 0 /\ ~recovering THEN off \ {earth} ELSE off

\* hidePopup() of that iteration: nothing is scheduled during a recovery
hidePopup_C(p, recovering) == IF recovering THEN p ELSE hidePopup(p)

\* the container's mouseleave and the document's mousemove of that iteration
pointerAway_C(p, recovering) ==
  IF p.isVisible /\ ~p.isHoveringPopup THEN hidePopup_C(p, recovering) ELSE p

\* a marker's mouseover listener; showPopup returns at once during a recovery
handleMouseOver_C(i) ==
  /\ i \in hoverable
  /\ LET s == spritesCache[i]
         g == s.earth
     IN IF closure.isMobile \/ closure.isTablet \/ isRecovering
        THEN UNCHANGED <<popups, popupNode, interactionOff>>
        ELSE LET p == showPopup(popups[g], groupOf(s)) IN
             /\ popups' = [popups EXCEPT ![g] = p]
             /\ popupNode' = renderPopupContent([popupNode EXCEPT !.display = "block"], g, p)
             /\ interactionOff' =
                  disableEarthInteraction_C(interactionOff, earthInstanceRef, isRecovering)
  /\ UNCHANGED hostCalls
  /\ popupFrame
  /\ UNCHANGED legacyVars

\* a marker's mouseout listener
handleMouseOut_C(i) ==
  /\ i \in hoverable
  /\ IF closure.isMobile \/ closure.isTablet \/ isRecovering
     THEN UNCHANGED popups
     ELSE popups' = [popups EXCEPT ![spritesCache[i].earth] = hidePopup_C(@, isRecovering)]
  /\ UNCHANGED <<popupNode, hostCalls, popupPlace, interactionOff>>
  /\ popupFrame
  /\ UNCHANGED legacyVars

\* the pointer moves outside the popup's rectangle: the document's mousemove
\* listener of every closure runs; big screen only
DocMouseMove_C ==
  /\ isBigScreen(closure)
  /\ Len(popups) > 0
  /\ popups' = [g \in 1..Len(popups) |-> pointerAway_C(popups[g], isRecovering)]
  /\ UNCHANGED <<popupNode, hostCalls, popupPlace, interactionOff>>
  /\ popupFrame
  /\ UNCHANGED legacyVars

\* the hide debounce of closure g elapses
HideTimer_C(g) ==
  /\ g \in 1..Len(popups)
  /\ popups[g].hideTimer > 0
  /\ popups' = [popups EXCEPT ![g] = hideTimerFires(@)]
  /\ popupNode' = [popupNode EXCEPT !.display = "none"]
  /\ interactionOff' =
       enableEarthInteraction_C(interactionOff, earthInstanceRef, isRecovering)
  /\ UNCHANGED hostCalls
  /\ popupFrame
  /\ UNCHANGED legacyVars

\* the popup, context loss and recovery of that iteration, from a populated globe
NextPopup_C ==
  \/ \E i \in 1..Len(spritesCache) : handleMouseOver_C(i)
  \/ \E i \in 1..Len(spritesCache) : handleMouseOut_C(i)
  \/ PopupMouseEnter
  \/ PopupMouseLeave
  \/ DocMouseMove_C
  \/ \E g \in 1..Len(popups) : HideTimer_C(g)
  \/ \E e \in 1..Len(engines) : ContextLost_C(e)
  \/ \E e \in 1..Len(engines) : ContextRestored_C(e)
  \/ \E t \in 1..Len(tasks) : RecoverTimer_C(t)
  \/ \E t \in 1..Len(tasks) : RecoverWait_C(t)
  \/ \E t \in 1..Len(tasks) : InitZoomTimer_C(t)

SpecPopup_C == InitRecover_C /\ [][NextPopup_C]_vars

(***************************************************************************)
(* Claims: globe interaction and the popup                                 *)
(***************************************************************************)
\* Stable: an engine is held, its context is there, and no restoration is waiting
\* for or running its recovery
stable_C ==
  /\ earthInstanceRef /= 0
  /\ engines[earthInstanceRef] = "live"
  /\ ~isRecovering
  /\ ~lostSignalled

\* Hidden: the node is not displayed, no closure takes the popup for visible and
\* no hide is pending
popupHidden ==
  /\ popupNode.display = "none"
  /\ \A g \in 1..Len(popups) : ~popups[g].isVisible /\ popups[g].hideTimer = 0

\* show() turns the interaction of the engine held off and the completion of the
\* debounced hide turns it on again
interactionFollowsPopup ==
  /\ [][ \A i \in 1..Len(spritesCache) :
           (handleMouseOver_C(i) /\ popupNode'.display = "block" /\ ~isRecovering)
             => earthInstanceRef \in interactionOff' ]_vars
  /\ [][ \A g \in 1..Len(popups) :
           (HideTimer_C(g) /\ stable_C) => earthInstanceRef \notin interactionOff' ]_vars

\* C33: globe interaction is disabled exactly while the popup is visible: whenever
\* the controller is Stable, the engine's interaction is on if the popup is Hidden
\* and off if the popup is displayed.
C33_InteractionOffExactlyWhileShown ==
  /\ stable_C /\ popupHidden => earthInstanceRef \notin interactionOff
  /\ stable_C /\ popupNode.display = "block" => earthInstanceRef \in interactionOff

(***************************************************************************)
(* Claims: a failed fetch                                                  *)
(***************************************************************************)
\* the initializations whose fetch of the data API failed
fetchFailed == {t \in 1..Len(tasks) : tasks[t].failedAt = "fetch"}

\* C34: a failed fetch with no cached records is not fatal: the step in which the
\* fetch fails leaves the engine, the handle to it, the marker set and the zoom
\* level alone; the call has created no marker; no rejection escapes
\* initializeEarth; and while the engine is held the zoom operations still work.
C34_FetchFailureIsNotFatal ==
  /\ [][ \A t \in 1..Len(tasks) :
           (tasks[t].pc = "fetch" /\ tasks'[t].failedAt = "fetch")
             => UNCHANGED <<engines, earthInstanceRef, spritesCache, zoomState,
                            dataCentersData>> ]_vars
  /\ [](\A t \in fetchFailed :
          /\ ~tasks[t].rejected
          /\ ~tasks[t].started
          /\ tasks[t].pc = "done"
          /\ earthInstanceRef /= 0 => ENABLED zoomIn /\ ENABLED zoomOut /\ ENABLED resetZoom)

\* the fetch of the first initialization has failed: its engine is live and held,
\* and the marker set is empty
C34_Witness ==
  \E t \in fetchFailed :
    /\ earthInstanceRef = tasks[t].earth
    /\ engines[earthInstanceRef] = "live"
    /\ spritesCache = <<>>
    /\ Len(dataCentersData) = 0

(***************************************************************************)
(* Claims: the nodes of the controller                                     *)
(***************************************************************************)
\* C35: after any number of initializations and recoveries the document holds at
\* most one #earth-container node, at most one #earth-popup node and at most one
\* <style> node injected by the controller.
C35_AtMostOneNodeOfEach ==
  /\ dom.container <= 1
  /\ dom.popup <= 1
  /\ dom.style <= 1

\* the first initialization and two recoveries have each run initializeEarth
C35_Witness ==
  /\ Len(engines) >= 3
  /\ contextLostCount >= 2
  /\ dom = OneOfEach

(***************************************************************************)
(* Claims: regions with invalid records                                    *)
(***************************************************************************)
\* the regions of call t that hold at least one record with finite coordinates
hasValidRecord(t, k) ==
  LET group == regionMap(tasks[t].centers, tasks[t].regions[k]) IN
  \E i \in 1..Len(group) : ~badRecord(group[i])

\* C36: a region receives a marker whenever at least one of its records has valid
\* coordinates and the factory succeeds: when a call in which the factory never
\* failed is over, every such region has its marker, also when the first record
\* of the region is invalid.
C36_ValidRecordGetsMarker ==
  \A t \in populateCalls :
    (tasks[t].pc = "done" /\ tasks[t].allSucceeded) =>
      \A k \in regionIndexes(t) : hasValidRecord(t, k) => tasks[t].markers[k] = 1

\* the regions of call t that tryAddRegion skips for their data
skipped(t) == {k \in regionIndexes(t) : ~regionIsValid(tasks[t].centers, tasks[t].regions[k])}

\* C37: a region skipped because its data is invalid is evaluated exactly once per
\* call: it is never on the retry queue and no retry round or backoff delay is
\* spent on it.
C37_SkippedRegionEvaluatedOnce ==
  \A t \in populateCalls : \A k \in skipped(t) :
    /\ tasks[t].tries[k] <= 1
    /\ \A e \in queued(t) : e.region /= tasks[t].regions[k]

(***************************************************************************)
(* Claims: operations on a destroyed engine                                *)
(***************************************************************************)
\* the step calls the sprite factory of the engine call t was started for
factoryCalled(t) ==
  /\ t \in 1..Len(tasks')
  /\ tasks'[t].started
  /\ \E k \in 1..Len(tasks'[t].calls) :
       tasks'[t].calls[k] > (IF tasks[t].started /\ k \in 1..Len(tasks[t].calls)
                             THEN tasks[t].calls[k] ELSE 0)

\* C38: no engine operation is invoked on an engine after destroy() has been
\* called on it by recovery or by teardown: a zoom call that reaches the engine
\* held (camera, orbit, update, render) and a factory call of createSprites
\* (addSprite) find their engine not destroyed.
C38_NoOperationOnDestroyedEngine ==
  /\ [][ (zoomIn \/ zoomOut \/ resetZoom) => engines[earthInstanceRef] /= "destroyed" ]_vars
  /\ [][ \A t \in 1..Len(tasks) :
           factoryCalled(t) => engines[tasks'[t].earth] /= "destroyed" ]_vars

(***************************************************************************)
(* Claims: termination of createSprites                                    *)
(***************************************************************************)
\* C39: every createSprites call terminates whatever the factory does: the
\* initial pass visits each region exactly once, the retry loop runs at most
\* maxRetries (3) rounds, and when the call ends the failed queue is empty.
C39_PopulateTerminates ==
  /\ [](\A t \in populateCalls :
          /\ tasks[t].pc = "batchWait" =>
               \A k \in regionIndexes(t) :
                 tasks[t].tries[k] = (IF k <= tasks[t].idx THEN 1 ELSE 0)
          /\ tasks[t].pc \in {"retryWait", "done"} =>
               /\ tasks[t].idx = Len(tasks[t].regions)
               /\ \A k \in regionIndexes(t) :
                    /\ tasks[t].tries[k] >= 1
                    /\ tasks[t].tries[k] <= tasks[t].retryRound
          /\ tasks[t].retryRound - 1 <= maxRetries
          /\ maxRetries = 3
          /\ tasks[t].pc = "done" =>
               tasks[t].failedQueue = <<>> /\ tasks[t].currentFailed = <<>>)
  /\ \A t \in 1..MaxTasks :
       (t \in populateCalls) ~> (t \in populateCalls /\ tasks[t].pc = "done")

\* a call has ended after three retry rounds in which the factory failed for a
\* region on every attempt
C39_Witness ==
  \E t \in populateCalls :
    /\ tasks[t].pc = "done"
    /\ tasks[t].retryRound = maxRetries + 1
    /\ tasks[t].failedQueue = <<>>
    /\ \E k \in regionIndexes(t) : tasks[t].calls[k] = 1 + maxRetries

====
